---- MODULE Spec2Model ----
(***************************************************************************)
(* Model of bernard, a synchronisation backend that mirrors the metadata   *)
(* of a Google Shared Drive into a SQLite datastore.                       *)
(*                                                                         *)
(*   SpecOrder : rootFolders / orderFoldersOnHierarchy     (fetch.go)      *)
(*   SpecAuth  : fetcher.withAuth, the auth-and-retry loop (fetch.go)      *)
(*   SpecStore : sqlite Datastore.FullSync / PartialSync   (sqlite.go)     *)
(*   SpecSync  : Bernard.FullSync / Bernard.PartialSync    (sync.go)       *)
(*   SpecSift  : the change loop of changedContent         (fetch.go)      *)
(*                                                                         *)
(* Every specification uses all the variables; the ones it does not need   *)
(* keep their initial value.                                               *)
(***************************************************************************)
EXTENDS Integers, Sequences, FiniteSets, TLC

VARIABLES
    \* orderFoldersOnHierarchy: the argument, the loop variables, the position
    ordInput, nonRoots, ordered, ordPc,
    \* withAuth: position, retriedAttempts, the request's Authorization header
    \* values, what the sleep function was called with, the HTTP attempts made,
    \* the last response, the number of retryable responses received, the
    \* order of requests / responses / sleeps, and the returned error
    authPc, retriedAttempts, reqHeader, sleeps, requests, lastResp,
    nRetryable, events, authResult,
    \* the datastore: the committed rows of the tables drive, folder and file,
    \* whether a call has returned with its transaction still open, and the
    \* last Datastore call with its result
    driveTbl, folderTbl, fileTbl, stLeaked, stLast,
    \* Bernard: the safeSleep option; the running FullSync / PartialSync call
    \* (operation and driveID), its position, its local variables (the page
    \* token read first, the cursor of the page loop, the ds.Drive being
    \* built, the folders, files and removed IDs gathered so far), the pages
    \* fetched, the duration slept, the hooks run, and the error returned
    safeSleep, syCall, syPc, syTok, syCursor, syDrive, syFolders, syFiles,
    syRemoved, syPages, sySlept, syHooked, syErr,
    \* the hooks invoked, by position in the argument list, with their results
    syHookLog,
    \* the error the fetcher returned to the running call, "none" if it has not
    syFetchErr,
    \* what the call met: the drive's stored page token when it began, the
    \* newStartPageToken of the last page received, and whether an earlier
    \* page carried a newStartPageToken
    syBefore, upLast, upEarlier,
    \* the steps the call has taken, in order, and the database when it began
    syLog, syDbBefore,
    \* one page of changedContent: response.Changes, the drive name and the
    \* removedIDs the earlier pages left, and what the page made of them
    sfChanges, sfPrior, sfOut,
    \* the shared drive at Google: its items, the ids changed so far in the
    \* order of the changes (a page token is a length of this log), the ids
    \* the running files.list has listed, and the number of changes the
    \* running changes.list has delivered
    upItems, upLog, upListed, upSent,
    \* one call of allContent or changedContent: which of the two, its
    \* position, the loop's pageToken, the pageToken of every request sent,
    \* every response received, what the loop has gathered, and the result
    pgKind, pgPc, pgToken, pgReqs, pgResps, pgAcc, pgOut,
    \* one Bernard.PartialSync from the diff on: its position, the diff
    \* (ds.Drive, changed folders and files, removed ids), the tables before
    \* the hook ran, what the differences hook returned and appended, and the
    \* tables after the diff was stored once
    btPc, btBatch, btBefore, btDiff, btOnce,
    \* two Bernard.PartialSync calls on one drive that run at the same time:
    \* each one's position, the page token it read, the page token of its diff
    \* and when it was fetched; the drive's cursor at Google, the number of
    \* change fetches made, and whether two calls have overlapped
    ilPc, ilPageToken, ilDiffToken, ilFetchedAt, ilHead, ilFetches, ilOverlap

orderVars == <<ordInput, nonRoots, ordered, ordPc>>
authVars == <<authPc, retriedAttempts, reqHeader, sleeps, requests, lastResp,
              nRetryable, events, authResult>>
storeVars == <<driveTbl, folderTbl, fileTbl, stLeaked, stLast>>
syncVars == <<safeSleep, syCall, syPc, syTok, syCursor, syDrive, syFolders, syFiles,
              syRemoved, syPages, sySlept, syHooked, syErr, syBefore, upLast,
              upEarlier, syLog, syDbBefore, syHookLog,
              syFetchErr>>
siftVars == <<sfChanges, sfPrior, sfOut>>
upVars == <<upItems, upLog, upListed, upSent>>
pageVars == <<pgKind, pgPc, pgToken, pgReqs, pgResps, pgAcc, pgOut>>
batchVars == <<btPc, btBatch, btBefore, btDiff, btOnce>>
interleaveVars == <<ilPc, ilPageToken, ilDiffToken, ilFetchedAt, ilHead, ilFetches, ilOverlap>>
vars == <<orderVars, authVars, storeVars, syncVars, siftVars, upVars, pageVars, batchVars, interleaveVars>>

(***************************************************************************)
(* Generic helpers                                                         *)
(***************************************************************************)
RECURSIVE SeqsUpTo(_, _)
\* all sequences over S of length at most n
SeqsUpTo(S, n) ==
    IF n = 0 THEN {<<>>}
    ELSE LET shorter == SeqsUpTo(S, n - 1)
         IN  shorter \cup {Append(s, x) : s \in {t \in shorter : Len(t) = n - 1}, x \in S}

\* the elements of a sequence
Range(s) == {s[i] : i \in 1..Len(s)}

\* how often x occurs in s
Count(s, x) == Cardinality({i \in 1..Len(s) : s[i] = x})

RECURSIVE Pow2(_)
Pow2(n) == IF n = 0 THEN 1 ELSE 2 * Pow2(n - 1)

(***************************************************************************)
(* datastore.Folder values used as inputs of the ordering functions        *)
(***************************************************************************)
OrderIDs == {"A", "B", "C"}
OrderParents == OrderIDs \cup {"Z"}
OrderNames == {"n1", "n2"}

\* the length of the longest folder list handed to orderFoldersOnHierarchy
MaxOrderLen == 3

OrderFolders ==
    [ID : OrderIDs, Name : OrderNames, Parent : OrderParents, Trashed : {FALSE}]

(***************************************************************************)
(* rootFolders (fetch.go): two maps keyed by folder ID are filled from     *)
(* the whole list (a later entry with the same ID overwrites an earlier    *)
(* one), then every list element is classified by its own Parent and the   *)
(* value appended is the map's folder for its ID.                          *)
(***************************************************************************)
\* the index of the last element of folders with this ID (the map's entry)
LastIndexOf(folders, id) ==
    CHOOSE i \in 1..Len(folders) :
        /\ folders[i].ID = id
        /\ \A j \in (i + 1)..Len(folders) : folders[j].ID # id

\* IDtoFolder[id]
IDtoFolder(folders, id) == folders[LastIndexOf(folders, id)]

\* _, ok := IDtoParent[parent]
InIDtoParent(folders, parent) == \E i \in 1..Len(folders) : folders[i].ID = parent

\* the value appended for list element f: IDtoFolder[f.ID]
RootFoldersEmit(folders, f) == IDtoFolder(folders, f.ID)

RECURSIVE RootFoldersFrom(_, _, _, _)
RootFoldersFrom(folders, i, roots, nonRts) ==
    IF i > Len(folders) THEN [roots |-> roots, nonRoots |-> nonRts]
    ELSE IF InIDtoParent(folders, folders[i].Parent)
         THEN RootFoldersFrom(folders, i + 1, roots,
                              Append(nonRts, RootFoldersEmit(folders, folders[i])))
         ELSE RootFoldersFrom(folders, i + 1,
                              Append(roots, RootFoldersEmit(folders, folders[i])), nonRts)

rootFolders(folders) == RootFoldersFrom(folders, 1, <<>>, <<>>)

(***************************************************************************)
(* orderFoldersOnHierarchy (fetch.go), one action per loop iteration       *)
(***************************************************************************)
InitAuthIdle ==
    /\ authPc = "idle"
    /\ retriedAttempts = 0
    /\ reqHeader = <<>>
    /\ sleeps = <<>>
    /\ requests = 0
    /\ lastResp = [kind |-> "none", status |-> 0, reasons |-> <<>>]
    /\ nRetryable = 0
    /\ events = <<>>
    /\ authResult = "none"

\* no Datastore call has returned since the caller took the last result
NoResult ==
    [op |-> "none", drive |-> "", err |-> "none", at |-> "none", tx |-> "none",
     orphan |-> FALSE, removed |-> {}, stray |-> FALSE]

\* sqlite.New: the schema is created, the tables are empty, the one
\* connection of the pool is free
InitStore ==
    /\ driveTbl = {}
    /\ folderTbl = {}
    /\ fileTbl = {}
    /\ stLeaked = FALSE
    /\ stLast = NoResult

\* no FullSync or PartialSync call is running
NoCall == [op |-> "none", drive |-> "", hooks |-> 0]
NoDrive == [ID |-> "", Name |-> "", PageToken |-> ""]
NoToken == [err |-> "none", pageToken |-> ""]
NoDb == [drive |-> {}, folder |-> {}, file |-> {}]

SyncLocalsIdle ==
    /\ syCall = NoCall
    /\ syPc = "idle"
    /\ syTok = ""
    /\ syCursor = ""
    /\ syDrive = NoDrive
    /\ syFolders = <<>>
    /\ syFiles = <<>>
    /\ syRemoved = <<>>
    /\ syPages = 0
    /\ sySlept = 0
    /\ syHooked = 0
    /\ syHookLog = <<>>
    /\ syFetchErr = "none"
    /\ syErr = "none"
    /\ syBefore = NoToken
    /\ upLast = ""
    /\ upEarlier = FALSE
    /\ syLog = <<>>
    /\ syDbBefore = NoDb

InitSyncIdle ==
    /\ safeSleep = 0
    /\ SyncLocalsIdle

NoSift == [done |-> FALSE, panic |-> FALSE, name |-> "", removedIDs |-> <<>>,
           folders |-> <<>>, files |-> <<>>]

InitSiftIdle ==
    /\ sfChanges = <<>>
    /\ sfPrior = [name |-> "", removedIDs |-> <<>>]
    /\ sfOut = NoSift

InitUpstreamIdle ==
    /\ upItems = {}
    /\ upLog = <<>>
    /\ upListed = {}
    /\ upSent = 0

NoGathered == [name |-> "", folders |-> <<>>, files |-> <<>>, removedIDs |-> <<>>]

InitPagesIdle ==
    /\ pgKind = "none"
    /\ pgPc = "idle"
    /\ pgToken = ""
    /\ pgReqs = <<>>
    /\ pgResps = <<>>
    /\ pgAcc = NoGathered
    /\ pgOut = NoGathered

NoBatch == [drive |-> [ID |-> "", Name |-> "", PageToken |-> ""],
            folders |-> <<>>, files |-> <<>>, removedIDs |-> <<>>]

NoDifference == [ran |-> FALSE, err |-> "nil",
                 AddedFiles |-> <<>>, ChangedFiles |-> <<>>, RemovedFiles |-> <<>>,
                 AddedFolders |-> <<>>, ChangedFolders |-> <<>>, RemovedFolders |-> <<>>]

\* the two calls
Callers == {"p1", "p2"}

InitInterleaveIdle ==
    /\ ilPc = [p \in Callers |-> "idle"]
    /\ ilPageToken = [p \in Callers |-> ""]
    /\ ilDiffToken = [p \in Callers |-> ""]
    /\ ilFetchedAt = [p \in Callers |-> 0]
    /\ ilHead = 0
    /\ ilFetches = 0
    /\ ilOverlap = FALSE

InitBatchIdle ==
    /\ btPc = "idle"
    /\ btBatch = NoBatch
    /\ btBefore = [drive |-> {}, folder |-> {}, file |-> {}]
    /\ btDiff = NoDifference
    /\ btOnce = [drive |-> {}, folder |-> {}, file |-> {}]

InitOrderIdle ==
    /\ ordInput = <<>>
    /\ nonRoots = <<>>
    /\ ordered = <<>>
    /\ ordPc = "idle"

InitOrder ==
    /\ ordInput \in SeqsUpTo(OrderFolders, MaxOrderLen)
    /\ nonRoots = ordInput
    /\ ordered = <<>>
    /\ ordPc = "loop"
    /\ InitAuthIdle
    /\ InitStore
    /\ InitSyncIdle
    /\ InitSiftIdle
    /\ InitUpstreamIdle
    /\ InitInterleaveIdle
    /\ InitBatchIdle
    /\ InitPagesIdle

\* if len(nonRoots) == 0 { break } ... return ordered
OrderReturn ==
    /\ ordPc = "loop"
    /\ Len(nonRoots) = 0
    /\ ordPc' = "done"
    /\ UNCHANGED <<ordInput, nonRoots, ordered, authVars, storeVars, syncVars, siftVars, interleaveVars, batchVars, pageVars, upVars>>

\* roots, newNonRoots := rootFolders(nonRoots); nonRoots = newNonRoots;
\* ordered = append(ordered, roots...)
OrderPass ==
    /\ ordPc = "loop"
    /\ Len(nonRoots) # 0
    /\ LET r == rootFolders(nonRoots)
       IN  /\ nonRoots' = r.nonRoots
           /\ ordered' = ordered \o r.roots
    /\ UNCHANGED <<ordInput, ordPc, authVars, storeVars, syncVars, siftVars, interleaveVars, batchVars, pageVars, upVars>>

NextOrder == OrderPass \/ OrderReturn

SpecOrder == InitOrder /\ [][NextOrder]_vars

(***************************************************************************)
(* Claims about the ordering functions (checked under SpecOrder)           *)
(***************************************************************************)
\* a folder of the list s has this ID
HasID(s, id) == \E i \in 1..Len(s) : s[i].ID = id

IsRootIn(s, f) == ~HasID(s, f.Parent)
IsNonRootIn(s, f) == HasID(s, f.Parent)

\* C5: in the result of orderFoldersOnHierarchy(S) every folder P precedes
\* every folder C with C.Parent = P.ID.
C5_ParentBeforeChild ==
    ordPc = "done" =>
        \A i, j \in 1..Len(ordered) :
            ordered[j].Parent = ordered[i].ID => i < j

\* C6: the result of orderFoldersOnHierarchy(S) holds exactly the multiset of
\* folder values of S, also when an ID occurs more than once in S.
C6_Permutation ==
    ordPc = "done" =>
        \A f \in Range(ordInput) \cup Range(ordered) :
            Count(ordered, f) = Count(ordInput, f)

\* C7: orderFoldersOnHierarchy terminates on every input: as long as folders
\* remain, the next pass removes at least one of them from the remaining set.
C7_EachPassRemoves ==
    (ordPc = "loop" /\ Len(nonRoots) > 0) =>
        Len(rootFolders(nonRoots).nonRoots) < Len(nonRoots)

\* C8: rootFolders(S) partitions S: roots are exactly the folders of S whose
\* parent is not the ID of a folder of S, nonRoots all the others, both in
\* the relative order of S.
C8_RootPartition ==
    LET S == nonRoots
        isRoot(f) == IsRootIn(S, f)
        isNonRoot(f) == IsNonRootIn(S, f)
    IN  /\ rootFolders(S).roots = SelectSeq(S, isRoot)
        /\ rootFolders(S).nonRoots = SelectSeq(S, isNonRoot)

(***************************************************************************)
(* fetcher.withAuth (fetch.go): the auth-and-retry loop around one request *)
(***************************************************************************)
\* access tokens the Authenticator may return
Tokens == {"tok1", "tok2"}

\* the most retryable responses the server gives to one withAuth call
MaxRetries == 7

\* the cap of the backoff, in seconds
MaxBackoff == 32

RetryStatuses == {429, 500, 502, 503, 504}
OtherStatuses == {200, 401, 404, 400}

\* the Reason fields of the error body's errors array (403 responses)
ReasonLists ==
    { <<>>,
      <<"userRateLimitExceeded">>,
      <<"rateLimitExceeded">>,
      <<"dailyLimitExceeded">>,
      <<"dailyLimitExceeded", "rateLimitExceeded">> }

\* what client.Do can produce: a transport failure or an HTTP response
Responses ==
    {[kind |-> "transport", status |-> 0, reasons |-> <<>>]}
    \cup [kind : {"http"}, status : RetryStatuses \cup OtherStatuses, reasons : {<<>>}]
    \cup [kind : {"http"}, status : {403}, reasons : ReasonLists]

\* the responses the API documents as transient: 429 and 5xx, and a 403 whose
\* first error reason is a rate limit
Retryable(resp) ==
    /\ resp.kind = "http"
    /\ \/ resp.status \in RetryStatuses
       \/ /\ resp.status = 403
          /\ Len(resp.reasons) > 0
          /\ resp.reasons[1] \in {"userRateLimitExceeded", "rateLimitExceeded"}

\* the switch on res.StatusCode: "ok", "retry", or the error returned
ClassifyNoRateLimit(resp) ==
    IF resp.kind = "transport" THEN "ErrNetwork"
    ELSE IF resp.status = 200 THEN "ok"
    ELSE IF resp.status \in {429, 500, 502, 503, 504} THEN "retry"
    ELSE IF resp.status = 401 THEN "ErrInvalidCredentials"
    ELSE IF resp.status = 404 THEN "ErrNotFound"
    ELSE "ErrNetwork"

ClassifyRetriesUnauthorized(resp) ==
    IF resp.kind = "transport" THEN "ErrNetwork"
    ELSE IF resp.status = 200 THEN "ok"
    ELSE IF resp.status \in {429, 500, 502, 503, 504, 401} THEN "retry"
    ELSE IF resp.status = 403 THEN
        IF Len(resp.reasons) = 0 THEN "ErrNetwork"
        ELSE IF resp.reasons[1] \in {"userRateLimitExceeded", "rateLimitExceeded"}
             THEN "retry"
             ELSE "ErrNetwork"
    ELSE IF resp.status = 404 THEN "ErrNotFound"
    ELSE "ErrNetwork"

Classify(resp) ==
    IF resp.kind = "transport" THEN "ErrNetwork"
    ELSE IF resp.status = 200 THEN "ok"
    ELSE IF resp.status \in {429, 500, 502, 503, 504} THEN "retry"
    ELSE IF resp.status = 401 THEN "ErrInvalidCredentials"
    ELSE IF resp.status = 403 THEN
        IF Len(resp.reasons) = 0 THEN "ErrNetwork"
        ELSE IF resp.reasons[1] \in {"userRateLimitExceeded", "rateLimitExceeded"}
             THEN "retry"
             ELSE "ErrNetwork"
    ELSE IF resp.status = 404 THEN "ErrNotFound"
    ELSE "ErrNetwork"

\* handleBackoff's waitDuration in seconds: math.Exp2(retriedAttempts), 32 at most
BackoffUncapped(n) == Pow2(n)

Backoff(n) == IF Pow2(n) <= MaxBackoff THEN Pow2(n) ELSE MaxBackoff

InitAuth ==
    /\ authPc = "top"
    /\ retriedAttempts = 0
    /\ reqHeader = <<>>
    /\ sleeps = <<>>
    /\ requests = 0
    /\ lastResp = [kind |-> "none", status |-> 0, reasons |-> <<>>]
    /\ nRetryable = 0
    /\ events = <<>>
    /\ authResult = "none"
    /\ InitOrderIdle
    /\ InitStore
    /\ InitSyncIdle
    /\ InitSiftIdle
    /\ InitUpstreamIdle
    /\ InitInterleaveIdle
    /\ InitBatchIdle
    /\ InitPagesIdle

\* token, _, err := fetch.auth.AccessToken(); if err != nil { return nil, err }
AuthTokenError ==
    /\ authPc = "top"
    /\ authPc' = "done"
    /\ authResult' = "ErrAuth"
    /\ events' = Append(events, "tokenerr")
    /\ UNCHANGED <<retriedAttempts, reqHeader, sleeps, requests, lastResp, nRetryable,
                   orderVars, siftVars, interleaveVars, batchVars, pageVars, upVars, storeVars, syncVars>>

\* req.Header.Add("Authorization", "Bearer "+token); res, err = fetch.client.Do(req)
AuthSend ==
    /\ authPc = "top"
    /\ \E token \in Tokens : reqHeader' = Append(reqHeader, token)
    /\ requests' = requests + 1
    /\ events' = Append(events, "request")
    /\ authPc' = "sent"
    /\ UNCHANGED <<retriedAttempts, sleeps, lastResp, nRetryable, authResult, orderVars, siftVars, interleaveVars, batchVars, pageVars, upVars, storeVars, syncVars>>

\* the response arrives and is dispatched on; nRetryable and events record
\* what the server answered, authPc and authResult what the switch made of it
AuthRespond ==
    /\ authPc = "sent"
    /\ \E resp \in Responses :
        /\ Retryable(resp) => nRetryable < MaxRetries
        /\ lastResp' = resp
        /\ nRetryable' = IF Retryable(resp) THEN nRetryable + 1 ELSE nRetryable
        /\ events' = Append(events, IF Retryable(resp) THEN "retryable" ELSE "terminal")
        /\ IF Classify(resp) = "retry"
           THEN /\ authPc' = "backoff"
                /\ UNCHANGED authResult
           ELSE /\ authPc' = "done"
                /\ authResult' = Classify(resp)
    /\ UNCHANGED <<retriedAttempts, reqHeader, sleeps, requests, orderVars, siftVars, interleaveVars, batchVars, pageVars, upVars, storeVars, syncVars>>

\* handleBackoff(); continue
AuthBackoff ==
    /\ authPc = "backoff"
    /\ sleeps' = Append(sleeps, Backoff(retriedAttempts))
    /\ retriedAttempts' = retriedAttempts + 1
    /\ events' = Append(events, "sleep")
    /\ authPc' = "top"
    /\ UNCHANGED <<reqHeader, requests, lastResp, nRetryable, authResult, orderVars, siftVars, interleaveVars, batchVars, pageVars, upVars, storeVars, syncVars>>

NextAuth == AuthTokenError \/ AuthSend \/ AuthRespond \/ AuthBackoff

SpecAuth == InitAuth /\ [][NextAuth]_vars

(***************************************************************************)
(* Claims about withAuth (checked under SpecAuth)                          *)
(***************************************************************************)
Min(a, b) == IF a <= b THEN a ELSE b

RECURSIVE RetryRounds(_)
\* k rounds of request, retryable response, sleep
RetryRounds(k) ==
    IF k = 0 THEN <<>> ELSE RetryRounds(k - 1) \o <<"request", "retryable", "sleep">>

\* withAuth has returned after a terminal response
ReturnedOnResponse == authPc = "done" /\ authResult # "ErrAuth"

\* C9: after k retryable responses and a terminal one, withAuth has made k+1
\* requests and k sleeps, the n-th of min(2^n, 32) seconds, each between a
\* retryable response and the next request; it never gives up on a retryable
\* response, whatever k is.
C9_BackoffLaw ==
    ReturnedOnResponse =>
        /\ ~Retryable(lastResp)
        /\ requests = nRetryable + 1
        /\ Len(sleeps) = nRetryable
        /\ \A n \in 0..(nRetryable - 1) : sleeps[n + 1] = Min(Pow2(n), 32)
        /\ events = RetryRounds(nRetryable) \o <<"request", "terminal">>

\* a call that went through the whole schedule up to the cap and returned
C9_Witness ==
    /\ ReturnedOnResponse
    /\ nRetryable = MaxRetries
    /\ nRetryable >= 7
    /\ sleeps[6] = 32
    /\ sleeps[7] = 32

\* C10 as stated: a retryable response always leads to a sleep followed by a
\* new request, so a call that received retryable responses and has returned
\* has made one more request than it received retryable responses.
C10_AlwaysNewRequest ==
    (authPc = "done" /\ nRetryable > 0) =>
        /\ Len(sleeps) = nRetryable
        /\ requests = nRetryable + 1

\* C10 as amended: a retryable response is never surfaced; it always leads to
\* a sleep followed by a new call of the token provider and, unless that call
\* fails, a new request; a later 200 makes withAuth return success.
C10_RetryableNotSurfaced ==
    /\ authPc = "done" =>
        /\ Len(sleeps) = nRetryable
        /\ IF authResult = "ErrAuth"
           THEN requests = nRetryable
           ELSE /\ requests = nRetryable + 1
                /\ ~Retryable(lastResp)
                /\ (lastResp.status = 200 => authResult = "ok")
    /\ authPc = "top" => (requests = nRetryable /\ Len(sleeps) = nRetryable)
    /\ authPc = "sent" => (requests = nRetryable + 1 /\ Len(sleeps) = nRetryable)
    /\ authPc = "backoff" =>
        (Retryable(lastResp) /\ requests = nRetryable /\ Len(sleeps) = nRetryable - 1)

\* a 403 rate-limit response was slept on, a new request was sent and the
\* call then succeeded on a 200
C10_Witness ==
    /\ authPc = "done"
    /\ authResult = "ok"
    /\ lastResp.status = 200
    /\ nRetryable > 0
    /\ events = RetryRounds(nRetryable) \o <<"request", "terminal">>

\* the error the API's answer stands for, when it is neither a 200 nor transient
TerminalError(resp) ==
    IF resp.kind = "transport" THEN "ErrNetwork"
    ELSE IF resp.status = 401 THEN "ErrInvalidCredentials"
    ELSE IF resp.status = 404 THEN "ErrNotFound"
    ELSE "ErrNetwork"

IsTerminalFailure(resp) ==
    /\ resp.kind # "none"
    /\ ~Retryable(resp)
    /\ ~(resp.kind = "http" /\ resp.status = 200)

\* C11: a 401, a 404, a 403 without a rate-limit reason, any other non-200
\* status and a transport failure end the call at once with the error they
\* stand for: no sleep and no request follows the attempt that met them.
C11_TerminalMapped ==
    IsTerminalFailure(lastResp) =>
        /\ authPc = "done"
        /\ authResult = TerminalError(lastResp)
        /\ requests = nRetryable + 1
        /\ Len(sleeps) = nRetryable
        /\ events[Len(events)] = "terminal"

\* the first attempt met a 403 whose first reason is no rate limit (a rate
\* limit is named second): the call has returned ErrNetwork after one
\* request and no sleep
C11_Witness ==
    /\ authPc = "done"
    /\ lastResp.status = 403
    /\ lastResp.reasons = <<"dailyLimitExceeded", "rateLimitExceeded">>
    /\ authResult = "ErrNetwork"
    /\ requests = 1
    /\ sleeps = <<>>

\* C26: every attempt withAuth sends, retries included, follows one call of
\* the token provider and carries exactly one Authorization header, with the
\* token of that call; when the token provider fails no request is sent and
\* its error is returned.  Header.Add on the request that is sent again puts
\* a further Authorization value next to those of the earlier attempts.
C26_OneBearerPerAttempt ==
    /\ Count(events, "request") = requests
    /\ authPc = "sent" =>
        /\ Len(reqHeader) = 1
        /\ reqHeader[1] \in Tokens
    /\ authResult = "ErrAuth" =>
        /\ events[Len(events)] = "tokenerr"
        /\ Count(events, "tokenerr") = 1

(***************************************************************************)
(* The SQLite datastore (sqlite.go): schema, statements, transactions      *)
(***************************************************************************)
\* SQL NULL, the parent of a root folder
NULL == "<NULL>"

\* sqlite.New runs PRAGMA foreign_keys=ON once, on the connection db.Exec
\* takes from the pool.  The setting belongs to that connection.  A
\* transaction that is neither committed nor rolled back keeps its connection,
\* and DB.Begin then opens new ones, on which the setting is SQLite's
\* default, off.
ForeignKeys == ~stLeaked

\* the committed rows
Tables == [drive |-> driveTbl, folder |-> folderTbl, file |-> fileTbl]

\* the database a transaction works on, and its connection's foreign_keys
Db == [drive |-> driveTbl, folder |-> folderTbl, file |-> fileTbl, fk |-> ForeignKeys]

\* FOREIGN KEY(parent, drive) REFERENCES folder(id, drive): the parent key exists
FkParentExists(folderRows, parent, drive) ==
    \E r \in folderRows : r.id = parent /\ r.drive = drive

\* sqlUpsertDrive
UpsertDriveRow(db, id, pageToken) ==
    [db EXCEPT !.drive = {r \in @ : r.id # id}
                            \cup {[id |-> id, pageToken |-> pageToken]}]

\* INSERT OR IGNORE: a row with the key stays as it is
UpsertFolderRowIgnore(db, id, drive, name, parent, trashed) ==
    LET p == IF parent = "" THEN NULL ELSE parent
        row == [id |-> id, drive |-> drive, name |-> name, parent |-> p,
                trashed |-> trashed]
        rows == IF \E r \in db.folder : r.id = id /\ r.drive = drive
                THEN db.folder ELSE db.folder \cup {row}
        ok == ~db.fk \/ p = NULL \/ FkParentExists(rows, p, drive)
    IN  [ok |-> ok, db |-> IF ok THEN [db EXCEPT !.folder = rows] ELSE db]

\* sqlUpsertFolder: NULLIF(parent, ""), the row replaces the one with its key;
\* the foreign key is checked when the statement ends, the row itself counts
UpsertFolderRow(db, id, drive, name, parent, trashed) ==
    LET p == IF parent = "" THEN NULL ELSE parent
        row == [id |-> id, drive |-> drive, name |-> name, parent |-> p,
                trashed |-> trashed]
        rows == {r \in db.folder : ~(r.id = id /\ r.drive = drive)} \cup {row}
        ok == ~db.fk \/ p = NULL \/ FkParentExists(rows, p, drive)
    IN  [ok |-> ok, db |-> IF ok THEN [db EXCEPT !.folder = rows] ELSE db]

\* sqlUpsertFile: parent is NOT NULL and must be a folder of the drive
UpsertFileRow(db, id, drive, name, md5, parent, size, trashed) ==
    LET row == [id |-> id, drive |-> drive, name |-> name, md5 |-> md5,
                parent |-> parent, size |-> size, trashed |-> trashed]
        rows == {r \in db.file : ~(r.id = id /\ r.drive = drive)} \cup {row}
        ok == ~db.fk \/ FkParentExists(db.folder, parent, drive)
    IN  [ok |-> ok, db |-> IF ok THEN [db EXCEPT !.file = rows] ELSE db]

\* a DELETE that matches no row
DeleteFileRowsNone(db, ids, drive) == [ok |-> TRUE, db |-> db]

\* a DELETE without AND drive=?
DeleteFileRowsAnyDrive(db, ids, drive) ==
    [ok |-> TRUE, db |-> [db EXCEPT !.file = {r \in @ : r.id \notin ids}]]

\* a DELETE that fails when one of the ids matches no file row of the drive
DeleteFileRowsStrict(db, ids, drive) ==
    LET ok == \A id \in ids : \E r \in db.file : r.id = id /\ r.drive = drive
    IN  [ok |-> ok,
         db |-> IF ok
                THEN [db EXCEPT !.file = {r \in @ : ~(r.id \in ids /\ r.drive = drive)}]
                ELSE db]

\* sqlDeleteFiles: DELETE FROM file WHERE id IN (...) AND drive=?
DeleteFileRows(db, ids, drive) ==
    [ok |-> TRUE,
     db |-> [db EXCEPT !.file = {r \in @ : ~(r.id \in ids /\ r.drive = drive)}]]

\* sqlDeleteFolders: DELETE FROM folder WHERE id IN (...) AND drive=?; the
\* statement fails when a remaining folder or file row references a deleted one
DeleteFolderRows(db, ids, drive) ==
    LET rows == {r \in db.folder : ~(r.id \in ids /\ r.drive = drive)}
        gone == db.folder \ rows
        ok == \/ ~db.fk
              \/ /\ \A r \in rows :
                      (\E g \in gone : g.id = r.parent /\ g.drive = r.drive)
                          => FkParentExists(rows, r.parent, r.drive)
                 /\ \A f \in db.file :
                      (\E g \in gone : g.id = f.parent /\ g.drive = f.drive)
                          => FkParentExists(rows, f.parent, f.drive)
    IN  [ok |-> ok, db |-> IF ok THEN [db EXCEPT !.folder = rows] ELSE db]

RECURSIVE UpsertFolders(_, _, _, _)
\* for _, f := range folders { upsertFolder.Exec(...) }, stopping at an error
UpsertFolders(db, drive, folders, i) ==
    IF i > Len(folders) THEN [ok |-> TRUE, db |-> db]
    ELSE LET f == folders[i]
             r == UpsertFolderRow(db, f.ID, drive, f.Name, f.Parent, f.Trashed)
         IN  IF r.ok THEN UpsertFolders(r.db, drive, folders, i + 1)
             ELSE [ok |-> FALSE, db |-> db]

RECURSIVE UpsertFiles(_, _, _, _)
\* for _, f := range files { upsertFile.Exec(...) }, stopping at an error
UpsertFiles(db, drive, files, i) ==
    IF i > Len(files) THEN [ok |-> TRUE, db |-> db]
    ELSE LET f == files[i]
             r == UpsertFileRow(db, f.ID, drive, f.Name, f.MD5, f.Parent, f.Size,
                                f.Trashed)
         IN  IF r.ok THEN UpsertFiles(r.db, drive, files, i + 1)
             ELSE [ok |-> FALSE, db |-> db]

\* driver failures a call can meet: Begin, Prepare, the drive upsert, Commit
Faults == {"begin", "prepare", "execDrive", "commit"}

\* what a call returns and leaves behind: the error, the statement it came
\* from, the committed database, and what became of its transaction
Outcome(err, at, db, tx) == [err |-> err, at |-> at, db |-> db, tx |-> tx]

\* tx.Rollback(): the database is the one the transaction started from
RollbackKeepsWrites(db0, db) == db

Rollback(db0, db) == db0

\* a FullSync that first deletes the rows of the drive
StoreFullSyncReplacing(db0, drive, folders, files, fault) ==
    IF fault = "begin" THEN Outcome("ErrDatabase", "begin", db0, "none")
    ELSE IF fault = "prepare" THEN Outcome("ErrDatabase", "prepare", db0, "open")
    ELSE IF fault = "execDrive" THEN Outcome("ErrDataAnomaly", "drive", db0, "open")
    ELSE
    LET db1 == UpsertDriveRow([db0 EXCEPT !.folder = {r \in @ : r.drive # drive.ID},
                                          !.file = {r \in @ : r.drive # drive.ID}],
                              drive.ID, drive.PageToken)
        r2 == UpsertFolderRow(db1, drive.ID, drive.ID, drive.Name, "", FALSE)
        r3 == UpsertFolders(r2.db, drive.ID, folders, 1)
        r4 == UpsertFiles(r3.db, drive.ID, files, 1)
    IN  IF ~r2.ok THEN Outcome("ErrDataAnomaly", "root",
                                Rollback(db0, r2.db), "rolledback")
        ELSE IF ~r3.ok THEN Outcome("ErrDataAnomaly", "folder",
                                Rollback(db0, r3.db), "rolledback")
        ELSE IF ~r4.ok THEN Outcome("ErrDataAnomaly", "file",
                                Rollback(db0, r4.db), "rolledback")
        ELSE IF fault = "commit" THEN Outcome("ErrDatabase", "commit", db0, "aborted")
        ELSE Outcome("nil", "none", r4.db, "committed")

\* a FullSync that upserts the root folder after the folders and files
StoreFullSyncRootLast(db0, drive, folders, files, fault) ==
    IF fault = "begin" THEN Outcome("ErrDatabase", "begin", db0, "none")
    ELSE IF fault = "prepare" THEN Outcome("ErrDatabase", "prepare", db0, "open")
    ELSE IF fault = "execDrive" THEN Outcome("ErrDataAnomaly", "drive", db0, "open")
    ELSE
    LET db1 == UpsertDriveRow(db0, drive.ID, drive.PageToken)
        r3 == UpsertFolders(db1, drive.ID, folders, 1)
        r4 == UpsertFiles(r3.db, drive.ID, files, 1)
        r2 == UpsertFolderRow(r4.db, drive.ID, drive.ID, drive.Name, "", FALSE)
    IN  IF ~r3.ok THEN Outcome("ErrDataAnomaly", "folder",
                                Rollback(db0, r3.db), "rolledback")
        ELSE IF ~r4.ok THEN Outcome("ErrDataAnomaly", "file",
                                Rollback(db0, r4.db), "rolledback")
        ELSE IF ~r2.ok THEN Outcome("ErrDataAnomaly", "root",
                                Rollback(db0, r2.db), "rolledback")
        ELSE IF fault = "commit" THEN Outcome("ErrDatabase", "commit", db0, "aborted")
        ELSE Outcome("nil", "none", r2.db, "committed")

\* Datastore.FullSync
StoreFullSync(db0, drive, folders, files, fault) ==
    IF fault = "begin" THEN Outcome("ErrDatabase", "begin", db0, "none")
    ELSE IF fault = "prepare" THEN Outcome("ErrDatabase", "prepare", db0, "open")
    ELSE IF fault = "execDrive" THEN Outcome("ErrDataAnomaly", "drive", db0, "open")
    ELSE
    LET db1 == UpsertDriveRow(db0, drive.ID, drive.PageToken)
        r2 == UpsertFolderRow(db1, drive.ID, drive.ID, drive.Name, "", FALSE)
        r3 == UpsertFolders(r2.db, drive.ID, folders, 1)
        r4 == UpsertFiles(r3.db, drive.ID, files, 1)
    IN  IF ~r2.ok THEN Outcome("ErrDataAnomaly", "root",
                                Rollback(db0, r2.db), "rolledback")
        ELSE IF ~r3.ok THEN Outcome("ErrDataAnomaly", "folder",
                                Rollback(db0, r3.db), "rolledback")
        ELSE IF ~r4.ok THEN Outcome("ErrDataAnomaly", "file",
                                Rollback(db0, r4.db), "rolledback")
        ELSE IF fault = "commit" THEN Outcome("ErrDatabase", "commit", db0, "aborted")
        ELSE Outcome("nil", "none", r4.db, "committed")

\* a PartialSync that upserts the root folder whatever the name is
StorePartialSyncAlwaysRoot(db0, drive, changedFolders, changedFiles, removedIDs, fault) ==
    IF fault = "begin" THEN Outcome("ErrDatabase", "begin", db0, "none")
    ELSE IF fault = "prepare" THEN Outcome("ErrDatabase", "prepare", db0, "open")
    ELSE IF fault = "execDrive"
         THEN Outcome("ErrDataAnomaly", "drive", Rollback(db0, db0), "rolledback")
    ELSE
    LET db1 == UpsertDriveRow(db0, drive.ID, drive.PageToken)
        r2 == UpsertFolderRow(db1, drive.ID, drive.ID, drive.Name, "", FALSE)
        r3 == UpsertFolders(r2.db, drive.ID, changedFolders, 1)
        r4 == UpsertFiles(r3.db, drive.ID, changedFiles, 1)
        r5 == IF Len(removedIDs) > 0
              THEN DeleteFileRows(r4.db, Range(removedIDs), drive.ID)
              ELSE [ok |-> TRUE, db |-> r4.db]
        r6 == IF Len(removedIDs) > 0
              THEN DeleteFolderRows(r5.db, Range(removedIDs), drive.ID)
              ELSE [ok |-> TRUE, db |-> r5.db]
    IN  IF ~r2.ok THEN Outcome("ErrDataAnomaly", "root",
                                Rollback(db0, r2.db), "rolledback")
        ELSE IF ~r3.ok THEN Outcome("ErrDataAnomaly", "folder",
                                Rollback(db0, r3.db), "rolledback")
        ELSE IF ~r4.ok THEN Outcome("ErrDataAnomaly", "file",
                                Rollback(db0, r4.db), "rolledback")
        ELSE IF ~r5.ok THEN Outcome("ErrDataAnomaly", "deleteFiles",
                                Rollback(db0, r5.db), "rolledback")
        ELSE IF ~r6.ok THEN Outcome("ErrDataAnomaly", "deleteFolders",
                                Rollback(db0, r6.db), "rolledback")
        ELSE IF fault = "commit" THEN Outcome("ErrDatabase", "commit", db0, "aborted")
        ELSE Outcome("nil", "none", r6.db, "committed")

\* a PartialSync that deletes before it upserts
StorePartialSyncDeletesFirst(db0, drive, changedFolders, changedFiles, removedIDs, fault) ==
    IF fault = "begin" THEN Outcome("ErrDatabase", "begin", db0, "none")
    ELSE IF fault = "prepare" THEN Outcome("ErrDatabase", "prepare", db0, "open")
    ELSE IF fault = "execDrive"
         THEN Outcome("ErrDataAnomaly", "drive", Rollback(db0, db0), "rolledback")
    ELSE
    LET db1 == UpsertDriveRow(db0, drive.ID, drive.PageToken)
        r2 == IF drive.Name # ""
              THEN UpsertFolderRow(db1, drive.ID, drive.ID, drive.Name, "", FALSE)
              ELSE [ok |-> TRUE, db |-> db1]
        r5 == IF Len(removedIDs) > 0
              THEN DeleteFileRows(r2.db, Range(removedIDs), drive.ID)
              ELSE [ok |-> TRUE, db |-> r2.db]
        r6 == IF Len(removedIDs) > 0
              THEN DeleteFolderRows(r5.db, Range(removedIDs), drive.ID)
              ELSE [ok |-> TRUE, db |-> r5.db]
        r3 == UpsertFolders(r6.db, drive.ID, changedFolders, 1)
        r4 == UpsertFiles(r3.db, drive.ID, changedFiles, 1)
    IN  IF ~r2.ok THEN Outcome("ErrDataAnomaly", "root",
                                Rollback(db0, r2.db), "rolledback")
        ELSE IF ~r3.ok THEN Outcome("ErrDataAnomaly", "folder",
                                Rollback(db0, r3.db), "rolledback")
        ELSE IF ~r4.ok THEN Outcome("ErrDataAnomaly", "file",
                                Rollback(db0, r4.db), "rolledback")
        ELSE IF ~r5.ok THEN Outcome("ErrDataAnomaly", "deleteFiles",
                                Rollback(db0, r5.db), "rolledback")
        ELSE IF ~r6.ok THEN Outcome("ErrDataAnomaly", "deleteFolders",
                                Rollback(db0, r6.db), "rolledback")
        ELSE IF fault = "commit" THEN Outcome("ErrDatabase", "commit", db0, "aborted")
        ELSE Outcome("nil", "none", r4.db, "committed")

\* Datastore.PartialSync
StorePartialSync(db0, drive, changedFolders, changedFiles, removedIDs, fault) ==
    IF fault = "begin" THEN Outcome("ErrDatabase", "begin", db0, "none")
    ELSE IF fault = "prepare" THEN Outcome("ErrDatabase", "prepare", db0, "open")
    ELSE IF fault = "execDrive"
         THEN Outcome("ErrDataAnomaly", "drive", Rollback(db0, db0), "rolledback")
    ELSE
    LET db1 == UpsertDriveRow(db0, drive.ID, drive.PageToken)
        r2 == IF drive.Name # ""
              THEN UpsertFolderRow(db1, drive.ID, drive.ID, drive.Name, "", FALSE)
              ELSE [ok |-> TRUE, db |-> db1]
        r3 == UpsertFolders(r2.db, drive.ID, changedFolders, 1)
        r4 == UpsertFiles(r3.db, drive.ID, changedFiles, 1)
        r5 == IF Len(removedIDs) > 0
              THEN DeleteFileRows(r4.db, Range(removedIDs), drive.ID)
              ELSE [ok |-> TRUE, db |-> r4.db]
        r6 == IF Len(removedIDs) > 0
              THEN DeleteFolderRows(r5.db, Range(removedIDs), drive.ID)
              ELSE [ok |-> TRUE, db |-> r5.db]
    IN  IF ~r2.ok THEN Outcome("ErrDataAnomaly", "root",
                                Rollback(db0, r2.db), "rolledback")
        ELSE IF ~r3.ok THEN Outcome("ErrDataAnomaly", "folder",
                                Rollback(db0, r3.db), "rolledback")
        ELSE IF ~r4.ok THEN Outcome("ErrDataAnomaly", "file",
                                Rollback(db0, r4.db), "rolledback")
        ELSE IF ~r5.ok THEN Outcome("ErrDataAnomaly", "deleteFiles",
                                Rollback(db0, r5.db), "rolledback")
        ELSE IF ~r6.ok THEN Outcome("ErrDataAnomaly", "deleteFolders",
                                Rollback(db0, r6.db), "rolledback")
        ELSE IF fault = "commit" THEN Outcome("ErrDatabase", "commit", db0, "aborted")
        ELSE Outcome("nil", "none", r6.db, "committed")

\* Datastore.PageToken: the drive's pageToken, ErrFullSync when it has no row
\* row.Scan fails when the query has no row, and when the driver fails
StorePageToken(db, driveID, fault) ==
    IF fault = "query" THEN [err |-> "ErrFullSync", pageToken |-> ""]
    ELSE IF \E r \in db.drive : r.id = driveID
    THEN [err |-> "nil", pageToken |-> (CHOOSE r \in db.drive : r.id = driveID).pageToken]
    ELSE [err |-> "ErrFullSync", pageToken |-> ""]

\* driver failures a query can meet
QueryFaults == {"query"}

\* the drive's stored page token, as an undisturbed read gives it
StoredToken(db, driveID) == StorePageToken(db, driveID, "none")

(***************************************************************************)
(* SpecStore: any sequence of Datastore.FullSync and Datastore.PartialSync *)
(* calls on one database holding two drives.  A call is one action; its    *)
(* result stays in stLast until the caller takes it (StReturn).            *)
(***************************************************************************)
Drives == {"D1", "D2"}

\* the longest folder list and file list of one call
MaxFolders == 2
MaxFiles == 1

Folder(id, name, parent, trashed) ==
    [ID |-> id, Name |-> name, Parent |-> parent, Trashed |-> trashed]

File(id, name, parent, trashed, size, md5) ==
    [ID |-> id, Name |-> name, Parent |-> parent, Trashed |-> trashed,
     Size |-> size, MD5 |-> md5]

\* the folders and files a call for drive d may carry: drive D1 has folders
\* a and b and a file f, drive D2 a folder a and a file f of its own
StoreFolderInputs(d) ==
    IF d = "D1"
    THEN {Folder("a", "n1", "D1", FALSE), Folder("a", "n2", "D1", TRUE),
          Folder("b", "n1", "a", FALSE)}
    ELSE {Folder("a", "n1", "D2", FALSE)}

StoreFileInputs(d) ==
    IF d = "D1"
    THEN {File("f", "n1", "D1", FALSE, 1, "m1"), File("f", "n2", "b", TRUE, 2, "m2")}
    ELSE {File("f", "n1", "a", FALSE, 1, "m1")}

StoreRemovedInputs(d) ==
    IF d = "D1"
    THEN {<<>>, <<"a">>, <<"b", "f">>, <<"a", "b", "f">>}
    ELSE {<<"a", "f">>}

\* the ds.Drive argument: FullSync gets the drive's name and the start page
\* token, PartialSync the new name ("" when it did not change) and a new token
FullSyncDrives == [ID : Drives, Name : {"n1"}, PageToken : {"t1"}]
PartialSyncDrives == [ID : {"D1"}, Name : {"", "n2"}, PageToken : {"t2"}]
                     \cup [ID : {"D2"}, Name : {""}, PageToken : {"t2"}]

\* the call's input has a folder or a file whose parent is, when the row is
\* written, neither the drive's root nor a folder row of the drive nor a folder
\* written before it
OrphanInput(db, driveID, folders, files) ==
    LET known(i) == {driveID} \cup {r.id : r \in {x \in db.folder : x.drive = driveID}}
                        \cup {folders[j].ID : j \in 1..i}
    IN  \/ \E i \in 1..Len(folders) : folders[i].Parent \notin known(i - 1)
        \/ \E k \in 1..Len(files) : files[k].Parent \notin known(Len(folders))

\* once the changed folders and files are written, a folder row or a file row
\* of the drive that is not in removedIDs has a parent folder row that is
\* (a row all of whose ancestors are removed with it has its parent removed)
StrayDescendant(db, driveID, folders, files, removedIDs) ==
    LET unchecked == [db EXCEPT !.fk = FALSE]
        written == UpsertFiles(UpsertFolders(unchecked, driveID, folders, 1).db,
                               driveID, files, 1).db
        doomed == {g.id : g \in {x \in written.folder :
                                    x.drive = driveID /\ x.id \in Range(removedIDs)}}
    IN  \/ \E r \in written.folder :
            r.drive = driveID /\ r.id \notin Range(removedIDs) /\ r.parent \in doomed
        \/ \E r \in written.file :
            r.drive = driveID /\ r.id \notin Range(removedIDs) /\ r.parent \in doomed

\* the call returns: the database is what the call left committed
Returned(op, driveID, out, orphan, removedIDs, stray) ==
    /\ driveTbl' = out.db.drive
    /\ folderTbl' = out.db.folder
    /\ fileTbl' = out.db.file
    /\ stLeaked' = (stLeaked \/ out.tx = "open")
    /\ stLast' = [op |-> op, drive |-> driveID, err |-> out.err, at |-> out.at,
                  tx |-> out.tx, orphan |-> orphan, removed |-> Range(removedIDs),
                  stray |-> stray]

\* one Datastore.FullSync call
StFullSync ==
    /\ stLast.op = "none"
    /\ \E drive \in FullSyncDrives :
        \E folders \in SeqsUpTo(StoreFolderInputs(drive.ID), MaxFolders) :
            \E files \in SeqsUpTo(StoreFileInputs(drive.ID), MaxFiles) :
                \E out \in {StoreFullSync(Db, drive, folders, files, "none")} :
                    Returned("FullSync", drive.ID, out,
                             OrphanInput(Db, drive.ID, folders, files), <<>>, FALSE)
    /\ UNCHANGED <<orderVars, siftVars, interleaveVars, batchVars, pageVars, upVars, authVars, syncVars>>

\* one Datastore.PartialSync call
StPartialSync ==
    /\ stLast.op = "none"
    /\ \E drive \in PartialSyncDrives :
        \E folders \in SeqsUpTo(StoreFolderInputs(drive.ID), MaxFolders) :
            \E files \in SeqsUpTo(StoreFileInputs(drive.ID), MaxFiles) :
                \E removed \in StoreRemovedInputs(drive.ID) :
                    \E out \in {StorePartialSync(Db, drive, folders, files, removed,
                                                  "none")} :
                        Returned("PartialSync", drive.ID, out,
                                 OrphanInput(Db, drive.ID, folders, files), removed,
                                 StrayDescendant(Db, drive.ID, folders, files, removed))
    /\ UNCHANGED <<orderVars, siftVars, interleaveVars, batchVars, pageVars, upVars, authVars, syncVars>>

\* a FullSync call that meets a driver failure
StFullSyncFault ==
    /\ stLast.op = "none"
    /\ \E drive \in FullSyncDrives, fault \in Faults :
        \E out \in {StoreFullSync(Db, drive, <<>>, <<>>, fault)} :
            Returned("FullSync", drive.ID, out, FALSE, <<>>, FALSE)
    /\ UNCHANGED <<orderVars, siftVars, interleaveVars, batchVars, pageVars, upVars, authVars, syncVars>>

\* a PartialSync call that meets a driver failure
StPartialSyncFault ==
    /\ stLast.op = "none"
    /\ \E drive \in PartialSyncDrives, fault \in Faults :
        \E out \in {StorePartialSync(Db, drive, <<>>, <<>>, <<>>, fault)} :
            Returned("PartialSync", drive.ID, out, FALSE, <<>>, FALSE)
    /\ UNCHANGED <<orderVars, siftVars, interleaveVars, batchVars, pageVars, upVars, authVars, syncVars>>

\* the caller has the result; the next call can start
StReturn ==
    /\ stLast.op # "none"
    /\ stLast' = NoResult
    /\ UNCHANGED <<driveTbl, folderTbl, fileTbl, stLeaked, orderVars, siftVars, interleaveVars, batchVars, pageVars, upVars, authVars, syncVars>>

InitStoreSpec ==
    /\ InitStore /\ InitOrderIdle /\ InitAuthIdle /\ InitSyncIdle /\ InitSiftIdle
    /\ InitUpstreamIdle
    /\ InitInterleaveIdle
    /\ InitBatchIdle
    /\ InitPagesIdle

NextStore ==
    StFullSync \/ StPartialSync \/ StFullSyncFault \/ StPartialSyncFault \/ StReturn

SpecStore == InitStoreSpec /\ [][NextStore]_vars

(***************************************************************************)
(* Claims about the datastore (checked under SpecStore)                    *)
(***************************************************************************)
\* C1: in every committed state of the store, every file row's parent and
\* every folder row's non-null parent is the id of a folder row of the same
\* drive.  It holds while every transaction was ended; once a call has returned
\* with its transaction open, the next calls write without foreign keys.
C1_ReferentialIntegrity ==
    /\ \A f \in fileTbl :
        \E p \in folderTbl : p.id = f.parent /\ p.drive = f.drive
    /\ \A c \in folderTbl :
        c.parent # NULL => \E p \in folderTbl : p.id = c.parent /\ p.drive = c.drive

\* C2: a Datastore.PartialSync call that returns a data anomaly leaves the
\* drive rows (page tokens), the folder rows (root name included) and the file
\* rows exactly as they were before the call.
C2_PartialSyncAtomic ==
    [][(stLast'.op = "PartialSync" /\ stLast'.err = "ErrDataAnomaly")
        => (driveTbl' = driveTbl /\ folderTbl' = folderTbl /\ fileTbl' = fileTbl)]_vars

\* a PartialSync call, which carries page token t2, has returned a data
\* anomaly on a drive that holds rows and whose stored page token is t1
C2_Witness ==
    /\ stLast.op = "PartialSync"
    /\ stLast.err = "ErrDataAnomaly"
    /\ stLast.at = "deleteFolders"
    /\ stLast.tx = "rolledback"
    /\ \E d \in driveTbl : d.id = stLast.drive /\ d.pageToken = "t1"
    /\ \E c \in folderTbl : c.drive = stLast.drive /\ c.id = "a"

\* C18: a Datastore.FullSync call whose input has a folder or file with a
\* parent that is not a folder of the drive when the row is written returns
\* ErrDataAnomaly, with its transaction rolled back.  It does so while foreign
\* keys are enforced; after a call has returned with its transaction open the
\* input is committed and the call returns nil.
C18_FullSyncAllOrNothing ==
    (stLast.op = "FullSync" /\ stLast.orphan) =>
        /\ stLast.err = "ErrDataAnomaly"
        /\ stLast.tx = "rolledback"

\* a PartialSync call with removedIDs has come to its DELETE statements
RemovalReached ==
    /\ stLast.op = "PartialSync"
    /\ stLast.removed # {}
    /\ stLast.at \in {"deleteFiles", "deleteFolders", "commit", "none"}

\* C19: Datastore.PartialSync deletes the removed files, then the removed
\* folders: when every row under a removed folder is removed too, the call
\* returns nil and no row of the drive with a removed id is left; when a row
\* under a removed folder is not in removedIDs, the call returns
\* ErrDataAnomaly with its transaction rolled back.  It does so while foreign
\* keys are enforced; after a call has returned with its transaction open the
\* folder is deleted from under its rows and the call returns nil.
C19_RemovalClosedOrAnomaly ==
    RemovalReached =>
        IF stLast.stray
        THEN stLast.err = "ErrDataAnomaly" /\ stLast.tx = "rolledback"
        ELSE /\ stLast.err = "nil"
             /\ \A r \in folderTbl : ~(r.drive = stLast.drive /\ r.id \in stLast.removed)
             /\ \A r \in fileTbl : ~(r.drive = stLast.drive /\ r.id \in stLast.removed)

\* the drive row, the folder rows and the file rows of drive d
RowsOfDrive(d) ==
    [drive |-> {r \in driveTbl : r.id = d},
     folder |-> {r \in folderTbl : r.drive = d},
     file |-> {r \in fileTbl : r.drive = d}]

\* C25: a Datastore.FullSync or Datastore.PartialSync call for one drive,
\* whatever it returns, leaves the drive row (page token), the folder rows and
\* the file rows of every other drive as they were, also when both drives
\* hold the same ids and the call removes them.
C25_DriveIsolation ==
    [][\A d \in Drives : stLast'.drive # d => RowsOfDrive(d)' = RowsOfDrive(d)]_vars

\* a PartialSync for D1 has removed ids a and f, committed, while D2 holds a
\* folder a and a file f of its own
C25_Witness ==
    /\ stLast.op = "PartialSync" /\ stLast.drive = "D1" /\ stLast.err = "nil"
    /\ {"a", "f"} \subseteq stLast.removed
    /\ \E r \in folderTbl : r.drive = "D2" /\ r.id = "a"
    /\ \E r \in fileTbl : r.drive = "D2" /\ r.id = "f"
    /\ \E r \in driveTbl : r.id = "D1" /\ r.pageToken = "t2"
    /\ \E r \in driveTbl : r.id = "D2" /\ r.pageToken = "t1"

\* the root folder row of drive d as FullSync writes it
RootRow(d) == [id |-> d, drive |-> d, name |-> "n1", parent |-> NULL, trashed |-> FALSE]

\* C30: after every Datastore.FullSync call that returned nil, the drive table
\* has exactly one row for the call's drive and it holds the call's page
\* token, and the folder table has exactly one row with the drive's id in that
\* drive: null parent, not trashed, named as the drive.  The root is written
\* before the call's folders and files: a call does not fail at the root, and
\* it fails at a folder or file only when the input has a parent that is
\* neither the root nor a folder of the drive, never for a child of the root.
C30_RootAfterFullSync ==
    /\ (stLast.op = "FullSync" /\ stLast.err = "nil") =>
        /\ {r \in driveTbl : r.id = stLast.drive}
            = {[id |-> stLast.drive, pageToken |-> "t1"]}
        /\ {r \in folderTbl : r.id = stLast.drive /\ r.drive = stLast.drive}
            = {RootRow(stLast.drive)}
    /\ stLast.op = "FullSync" =>
        /\ stLast.at # "root"
        /\ stLast.at \in {"folder", "file"} => stLast.orphan

\* a FullSync of D1 with a folder and a file directly under the root has
\* returned nil
C30_Witness ==
    /\ stLast.op = "FullSync" /\ stLast.drive = "D1" /\ stLast.err = "nil"
    /\ ~stLeaked
    /\ RootRow("D1") \in folderTbl
    /\ \E r \in driveTbl : r.id = "D1" /\ r.pageToken = "t1"
    /\ \E r \in folderTbl : r.id = "a" /\ r.drive = "D1" /\ r.parent = "D1"
    /\ \E r \in fileTbl : r.id = "f" /\ r.drive = "D1" /\ r.parent = "D1"

\* a call has returned an error from a statement of its transaction
FailedInTransaction ==
    /\ stLast.op \in {"FullSync", "PartialSync"}
    /\ stLast.err \notin {"nil", "none"}
    /\ stLast.at \in {"prepare", "drive", "root", "folder", "file", "deleteFiles",
                      "deleteFolders"}

\* C33: when Datastore.FullSync or Datastore.PartialSync has returned an
\* error from a statement after Begin (Prepare, the drive upsert, the root,
\* folder and file upserts, the deletes), its transaction was rolled back and
\* no transaction is open.  The code returns from a failed Prepare, and
\* FullSync from a failed drive upsert, without tx.Rollback().
C33_RollbackOnEveryError ==
    FailedInTransaction => stLast.tx = "rolledback"

\* C33 for the statements that are followed by tx.Rollback()
C33_RollbackWhereCalled ==
    (FailedInTransaction /\ stLast.at # "prepare"
        /\ ~(stLast.op = "FullSync" /\ stLast.at = "drive")) => stLast.tx = "rolledback"

(***************************************************************************)
(* The fetcher's content functions (fetch.go) and what Google answers      *)
(***************************************************************************)
\* the drive Bernard is synchronising
SyncDrives == {"D1"}

\* the most pages one allContent / changedContent call is served
MaxPages == 2

\* the most hooks a PartialSync call is given
MaxHooks == 2

FolderMime == "application/vnd.google-apps.folder"

\* driveItem
DriveItem(id, name, mime, parents, driveID) ==
    [ID |-> id, Name |-> name, MimeType |-> mime, Parents |-> parents,
     MD5Checksum |-> IF mime = FolderMime THEN "" ELSE "m1",
     Size |-> IF mime = FolderMime THEN 0 ELSE 1,
     Trashed |-> FALSE, DriveID |-> driveID]

NoItem == DriveItem("", "", "", <<>>, "")

\* driveChange
DriveChange(driveID, driveName, fileID, removed, file) ==
    [DriveID |-> driveID, Drive |-> [ID |-> driveID, Name |-> driveName],
     FileID |-> fileID, Removed |-> removed, File |-> file]

\* the items of drive D1: a folder a under the root, a file f in a (listed
\* with two parents), and an item that is listed without parents
ItemA(driveID) == DriveItem("a", "n1", FolderMime, <<"D1">>, driveID)
ItemF(driveID) == DriveItem("f", "n1", "text/plain", <<"a", "D1">>, driveID)
ItemOrphan(driveID) == DriveItem("o", "n1", "text/plain", <<>>, driveID)

\* files.list does not ask for driveId
ListedPages ==
    { <<>>, <<ItemA("")>>, <<ItemF("")>>, <<ItemF(""), ItemA("")>>, <<ItemOrphan("")>> }

\* the changes of a page: a changed folder, a changed file, removals, the
\* drive renamed, the file moved to another drive, a change that names
\* neither a drive nor a file, an item without parents
ChangeA == DriveChange("", "", "a", FALSE, ItemA("D1"))
ChangeF == DriveChange("", "", "f", FALSE, ItemF("D1"))
RemoveA == DriveChange("", "", "a", TRUE, NoItem)
RemoveF == DriveChange("", "", "f", TRUE, NoItem)
RenameDrive == DriveChange("D1", "n2", "", FALSE, NoItem)
MoveOutF == DriveChange("", "", "f", FALSE, ItemF("D2"))
NoChange == DriveChange("", "", "", FALSE, NoItem)
ChangeOrphan == DriveChange("", "", "o", FALSE, ItemOrphan("D1"))

ChangedPages ==
    { <<>>, <<ChangeA>>, <<ChangeF>>, <<RemoveA>>, <<RemoveF>>, <<RenameDrive>>,
      <<MoveOutF>>, <<NoChange>>, <<ChangeOrphan>>, <<ChangeF, ChangeA>> }

\* the errors withAuth returns: those of its switch, and the Authenticator's
WithAuthErrors == ({Classify(r) : r \in Responses} \ {"ok", "retry"}) \cup {"ErrAuth"}

\* response.StartPageToken and drive names, absent fields decode to ""
StartPageTokens == {"", "t1"}
DriveNames == {"n1"}

\* nextPageToken
NextPageTokens == {"", "p"}

\* newStartPageToken: the pages before the last carry none or t3
NewStartPageTokens(next) == IF next = "" THEN {"", "t1", "t2"} ELSE {"", "t3"}

RECURSIVE ConvertFrom(_, _, _, _)
\* convert: item.Parents[0] panics on an item without parents
ConvertFrom(content, i, folders, files) ==
    IF i > Len(content) THEN [panic |-> FALSE, folders |-> folders, files |-> files]
    ELSE LET item == content[i]
         IN  IF Len(item.Parents) = 0
             THEN [panic |-> TRUE, folders |-> folders, files |-> files]
             ELSE IF item.MimeType = FolderMime
             THEN ConvertFrom(content, i + 1,
                      Append(folders, Folder(item.ID, item.Name, item.Parents[1],
                                             item.Trashed)),
                      files)
             ELSE ConvertFrom(content, i + 1, folders,
                      Append(files, File(item.ID, item.Name, item.Parents[1],
                                         item.Trashed, item.Size, item.MD5Checksum)))

convert(content) == ConvertFrom(content, 1, <<>>, <<>>)

RECURSIVE SiftChanges(_, _, _, _, _, _)
\* the loop over response.Changes in changedContent
SiftChanges(changes, i, driveID, name, removedIDs, changedItems) ==
    IF i > Len(changes)
    THEN [name |-> name, removedIDs |-> removedIDs, changedItems |-> changedItems]
    ELSE LET change == changes[i]
         IN  IF change.DriveID # ""
             THEN SiftChanges(changes, i + 1, driveID, change.Drive.Name, removedIDs,
                              changedItems)
             ELSE IF change.FileID = ""
             THEN SiftChanges(changes, i + 1, driveID, name, removedIDs, changedItems)
             ELSE IF change.Removed \/ change.File.DriveID # driveID
             THEN SiftChanges(changes, i + 1, driveID, name,
                              Append(removedIDs, change.FileID), changedItems)
             ELSE SiftChanges(changes, i + 1, driveID, name, removedIDs,
                              Append(changedItems, change.File))

\* drive.PageToken = response.NewStartPageToken, on every page
BatchPageTokenKeepFirst(pageToken, newStartPageToken) ==
    IF pageToken # "" THEN pageToken ELSE newStartPageToken

BatchPageToken(pageToken, newStartPageToken) == newStartPageToken

RECURSIVE OrderLoop(_, _)
\* orderFoldersOnHierarchy run to its end; a pass that moves nothing repeats
\* for ever
OrderLoop(rest, done) ==
    IF Len(rest) = 0 THEN [hangs |-> FALSE, ordered |-> done]
    ELSE LET r == rootFolders(rest)
         IN  IF Len(r.roots) = 0 /\ r.nonRoots = rest
             THEN [hangs |-> TRUE, ordered |-> done]
             ELSE OrderLoop(r.nonRoots, done \o r.roots)

orderFoldersOnHierarchy(folders) == OrderLoop(folders, <<>>)

(***************************************************************************)
(* SpecSift: one page of changedContent, from response.Changes to the      *)
(* folders, files and removedIDs it adds, for the requested drive D1.      *)
(***************************************************************************)
\* the most changes on the page
MaxChanges == 2

\* a removal that carries the shared drive's id next to the file's
RemoveAOfDrive == DriveChange("D1", "", "a", TRUE, NoItem)

\* a file whose driveId is absent from the answer
ChangeFNoDrive == DriveChange("", "", "f", FALSE, ItemF(""))

\* the changes Google may put on a page
SiftInputs ==
    {ChangeA, ChangeF, RemoveA, RemoveF, RenameDrive, MoveOutF, NoChange,
     ChangeOrphan, RemoveAOfDrive, ChangeFNoDrive}

\* drive.Name and removedIDs as the earlier pages left them
SiftPriors == [name : {"", "n1"}, removedIDs : {<<>>, <<"z">>}]

InitSift ==
    /\ sfChanges \in SeqsUpTo(SiftInputs, MaxChanges)
    /\ sfPrior \in SiftPriors
    /\ sfOut = NoSift
    /\ InitOrderIdle
    /\ InitAuthIdle
    /\ InitStore
    /\ InitSyncIdle
    /\ InitUpstreamIdle
    /\ InitInterleaveIdle
    /\ InitBatchIdle
    /\ InitPagesIdle

\* var changedItems []driveItem; for _, change := range response.Changes
\* {...}; changedFolders, changedFiles := convert(changedItems)
SiftPage ==
    /\ ~sfOut.done
    /\ \E sifted \in {SiftChanges(sfChanges, 1, "D1", sfPrior.name, sfPrior.removedIDs,
                                  <<>>)} :
        \E c \in {convert(sifted.changedItems)} :
            sfOut' = [done |-> TRUE, panic |-> c.panic, name |-> sifted.name,
                      removedIDs |-> sifted.removedIDs,
                      folders |-> c.folders, files |-> c.files]
    /\ UNCHANGED <<sfChanges, sfPrior, orderVars, authVars, storeVars, syncVars, upVars, interleaveVars, batchVars, pageVars>>

NextSift == SiftPage

SpecSift == InitSift /\ [][NextSift]_vars

(***************************************************************************)
(* Claims about the change filter (checked under SpecSift)                 *)
(***************************************************************************)
\* the change has a fileId and is marked removed or its file is of another
\* drive than the requested one
IsRemoval(change) ==
    /\ change.FileID # ""
    /\ change.Removed \/ change.File.DriveID # "D1"

\* the fileIds of the removals among the changes, in order
RECURSIVE RemovalsOf(_)
RemovalsOf(changes) ==
    IF changes = <<>> THEN <<>>
    ELSE (IF IsRemoval(Head(changes)) THEN <<Head(changes).FileID>> ELSE <<>>)
            \o RemovalsOf(Tail(changes))

\* C20: the fileId of every change that has one and is marked removed, or
\* whose file is of another drive, is appended to removedIDs, and the page
\* yields no folder or file for such a change.  A removal that carries a
\* driveId is taken for a change of the drive and its fileId is dropped.
C20_RemovalsFiltered ==
    (sfOut.done /\ ~sfOut.panic) =>
        /\ sfOut.removedIDs = sfPrior.removedIDs \o RemovalsOf(sfChanges)
        /\ Len(sfOut.folders) + Len(sfOut.files)
                <= Len(sfChanges) - Len(RemovalsOf(sfChanges))

\* the change names the drive and no file
IsDriveMetadata(change) == change.DriveID # "" /\ change.FileID = ""

\* the change names neither
IsIgnored(change) == change.DriveID = "" /\ change.FileID = ""

\* the name of the last change of the drive among the changes, name if none
RECURSIVE LastDriveName(_, _)
LastDriveName(changes, name) ==
    IF changes = <<>> THEN name
    ELSE LastDriveName(Tail(changes),
                       IF IsDriveMetadata(Head(changes)) THEN Head(changes).Drive.Name
                       ELSE name)

\* the changes that name a file
FileChangesOf(changes) ==
    {i \in 1..Len(changes) : ~IsDriveMetadata(changes[i]) /\ ~IsIgnored(changes[i])}

\* C21: a change is a change of the drive exactly when its driveId is set and
\* its fileId is empty: the pending drive name is that of the last such
\* change; a change with neither is ignored; every other change yields one
\* removed id, folder or file.  A change with both a driveId and a fileId is
\* taken for a change of the drive.
C21_DriveMetadataFilter ==
    (sfOut.done /\ ~sfOut.panic) =>
        /\ sfOut.name = LastDriveName(sfChanges, sfPrior.name)
        /\ (Len(sfOut.removedIDs) - Len(sfPrior.removedIDs))
                + Len(sfOut.folders) + Len(sfOut.files)
            = Cardinality(FileChangesOf(sfChanges))

\* C22: no id of removedIDs is the id of a folder or file of the same batch.
\* The loop appends to both lists without looking at the other, so a change
\* of an item followed by its removal leaves the id in both.
C22_RemovedChangedDisjoint ==
    (sfOut.done /\ ~sfOut.panic) =>
        Range(sfOut.removedIDs)
            \cap ({sfOut.folders[i].ID : i \in 1..Len(sfOut.folders)}
                    \cup {sfOut.files[i].ID : i \in 1..Len(sfOut.files)}) = {}

\* the items the page hands to convert
ConvertInput ==
    SiftChanges(sfChanges, 1, "D1", sfPrior.name, sfPrior.removedIDs, <<>>).changedItems

\* the items that have a parent, folders or the rest, in order
RECURSIVE WithParentOf(_, _)
WithParentOf(items, folders) ==
    IF items = <<>> THEN <<>>
    ELSE (IF Len(Head(items).Parents) > 0
             /\ (Head(items).MimeType = "application/vnd.google-apps.folder") = folders
          THEN <<Head(items)>> ELSE <<>>) \o WithParentOf(Tail(items), folders)

\* C23: convert does not fail, items without parents included: the folders
\* are the items of the folder mime type and the files the others, in order,
\* each with the first parent, and together they are as many as the items that
\* have a parent.  convert reads item.Parents[0] of every item and panics on
\* an item without parents.
C23_ConvertPartition ==
    sfOut.done =>
        LET fo == WithParentOf(ConvertInput, TRUE)
            fi == WithParentOf(ConvertInput, FALSE)
        IN  /\ ~sfOut.panic
            /\ sfOut.folders = [i \in 1..Len(fo) |->
                    [ID |-> fo[i].ID, Name |-> fo[i].Name, Parent |-> fo[i].Parents[1],
                     Trashed |-> fo[i].Trashed]]
            /\ Len(sfOut.files) = Len(fi)
            /\ \A i \in 1..Len(fi) :
                /\ sfOut.files[i].ID = fi[i].ID
                /\ sfOut.files[i].Parent = fi[i].Parents[1]
                /\ sfOut.files[i].MD5 = fi[i].MD5Checksum
                /\ sfOut.files[i].Size = fi[i].Size

(***************************************************************************)
(* SpecPages: the page loop of allContent and of changedContent for drive  *)
(* D1, a step for each request sent and each response received.            *)
(***************************************************************************)
\* the nextPageToken values of the responses
PageCursors == {"", "p", "q"}

\* folder a as files.list gives it after it was renamed
ItemARenamed == DriveItem("a", "n2", FolderMime, <<"D1">>, "")

PagesListed == ListedPages \cup {<<ItemARenamed>>, <<ItemF(""), ItemARenamed>>}

\* if pageToken == "" { break }
LoopEnds(pageToken) == pageToken = ""

\* allContent starts with var pageToken string, changedContent with the
\* pageToken it is called with
InitPages ==
    /\ pgKind \in {"allContent", "changedContent"}
    /\ pgPc = "loop"
    /\ pgToken = (IF pgKind = "allContent" THEN "" ELSE "t1")
    /\ pgReqs = <<>>
    /\ pgResps = <<>>
    /\ pgAcc = NoGathered
    /\ pgOut = NoGathered
    /\ InitOrderIdle
    /\ InitAuthIdle
    /\ InitStore
    /\ InitSyncIdle
    /\ InitSiftIdle
    /\ InitUpstreamIdle
    /\ InitInterleaveIdle
    /\ InitBatchIdle

\* the request of a round: allContent adds pageToken when it is not empty,
\* changedContent always
PgRequest ==
    /\ pgPc = "loop"
    /\ pgReqs' = Append(pgReqs, pgToken)
    /\ pgPc' = "wait"
    /\ UNCHANGED <<pgKind, pgToken, pgResps, pgAcc, pgOut,
                   orderVars, authVars, storeVars, syncVars, siftVars, interleaveVars, batchVars, upVars>>

\* res, err := fetch.withAuth(req); if err != nil { return ..., err }
PgFail ==
    /\ pgPc = "wait"
    /\ pgPc' = "failed"
    /\ UNCHANGED <<pgKind, pgToken, pgReqs, pgResps, pgAcc, pgOut,
                   orderVars, authVars, storeVars, syncVars, siftVars, interleaveVars, batchVars, upVars>>

\* the rest of the round: the response is decoded, its items converted and
\* appended, pageToken = response.NextPageToken, and the loop ends or goes on
PgRespond ==
    /\ pgPc = "wait"
    /\ Len(pgResps) < MaxPages
    /\ \E content \in (IF pgKind = "allContent" THEN PagesListed ELSE ChangedPages),
          next \in PageCursors :
        /\ Len(pgResps) + 1 = MaxPages => next = ""
        /\ pgResps' = Append(pgResps, [content |-> content, next |-> next])
        /\ \E sifted \in {IF pgKind = "allContent"
                          THEN [name |-> "", removedIDs |-> <<>>, changedItems |-> content]
                          ELSE SiftChanges(content, 1, "D1", pgAcc.name,
                                           pgAcc.removedIDs, <<>>)} :
           \E c \in {convert(sifted.changedItems)} :
           \E acc \in {[name |-> sifted.name, folders |-> pgAcc.folders \o c.folders,
                        files |-> pgAcc.files \o c.files,
                        removedIDs |-> sifted.removedIDs]} :
            IF c.panic
            THEN pgPc' = "panicked" /\ UNCHANGED <<pgToken, pgAcc, pgOut>>
            ELSE /\ pgToken' = next
                 /\ pgAcc' = acc
                 /\ IF LoopEnds(next)
                    THEN \E o \in {orderFoldersOnHierarchy(acc.folders)} :
                            IF o.hangs THEN pgPc' = "hung" /\ UNCHANGED pgOut
                            ELSE /\ pgPc' = "returned"
                                 /\ pgOut' = [acc EXCEPT !.folders = o.ordered]
                    ELSE pgPc' = "loop" /\ UNCHANGED pgOut
    /\ UNCHANGED <<pgKind, pgReqs, orderVars, authVars, storeVars, syncVars, siftVars, interleaveVars, batchVars,
                   upVars>>

NextPages == PgRequest \/ PgFail \/ PgRespond

SpecPages == InitPages /\ [][NextPages]_vars

(***************************************************************************)
(* Claims about pagination (checked under SpecPages)                       *)
(***************************************************************************)
\* the items a response adds: its files, or the files of its changes that
\* are neither removals nor changes of the drive
PageItems(content) ==
    IF pgKind = "allContent" THEN content
    ELSE SiftChanges(content, 1, "D1", "", <<>>, <<>>).changedItems

\* the folders and the files of the first n responses, in order
RECURSIVE GatheredUpTo(_)
GatheredUpTo(n) ==
    IF n = 0 THEN [folders |-> <<>>, files |-> <<>>]
    ELSE LET before == GatheredUpTo(n - 1)
             c == convert(PageItems(pgResps[n].content))
         IN  [folders |-> before.folders \o c.folders, files |-> before.files \o c.files]

\* requests go out one at a time, the first of allContent without pageToken,
\* each later one with the nextPageToken of the response before it, and none
\* after a response without nextPageToken
RequestsFollowCursor ==
    /\ Len(pgReqs) - Len(pgResps) \in {0, 1}
    /\ (pgKind = "allContent" /\ pgReqs # <<>>) => pgReqs[1] = ""
    /\ \A i \in 2..Len(pgReqs) :
        /\ pgReqs[i] = pgResps[i - 1].next
        /\ pgResps[i - 1].next # ""
    /\ pgPc = "loop" /\ pgResps # <<>> => pgResps[Len(pgResps)].next # ""

\* the call has returned after the response without nextPageToken
StopsAtEmptyCursor ==
    pgPc = "returned" =>
        /\ pgResps # <<>>
        /\ Len(pgReqs) = Len(pgResps)
        /\ pgResps[Len(pgResps)].next = ""

\* C24: allContent and changedContent send one page request at a time, the
\* first allContent request without pageToken and every following one with
\* the nextPageToken of the response before; the loop stops at the first
\* response without nextPageToken, and the result holds the items of every
\* page fetched, the files in the order of the pages.  A folder that two
\* pages list in two states comes out twice in its later state
\* (rootFolders), so the earlier page's item is not in the result.
C24_SerialPagination ==
    /\ RequestsFollowCursor
    /\ StopsAtEmptyCursor
    /\ pgPc = "returned" =>
        LET all == GatheredUpTo(Len(pgResps))
        IN  /\ pgOut.files = all.files
            /\ Len(pgOut.folders) = Len(all.folders)
            /\ \A f \in Range(all.folders) \cup Range(pgOut.folders) :
                Count(pgOut.folders, f) = Count(all.folders, f)

(***************************************************************************)
(* SpecSync: Bernard.FullSync and Bernard.PartialSync (sync.go) on drive   *)
(* D1, one action per step of the call; withAuth is taken as a whole.      *)
(***************************************************************************)
\* the safeSleep option, in seconds
SafeSleeps == {0, 60}

\* a hook returns nil or an error
HookResults == {"nil", "ErrHook"}

Locals(tok, cursor, drive, folders, files, removed) ==
    /\ syTok' = tok
    /\ syCursor' = cursor
    /\ syDrive' = drive
    /\ syFolders' = folders
    /\ syFiles' = files
    /\ syRemoved' = removed

\* PartialSync: if pageToken == diff.Drive.PageToken { return nil }
SameTokenNever(pageToken, diffPageToken) == FALSE

SameToken(pageToken, diffPageToken) == pageToken = diffPageToken

\* PartialSync: err = hk(...); if err != nil { return err }
HookAbortsNever(res) == FALSE

\* a loop that stops at database errors only
HookAbortsOnDatabaseError(res) == res = "ErrDatabase"

HookAborts(res) == res # "nil"

\* FullSync: if bernard.safeSleep > 0 { ... }
SleepsAlways(duration) == TRUE

Sleeps(duration) == duration > 0

\* return err: the call's local variables are gone
ReturnErr(err) ==
    /\ syPc' = "done"
    /\ syErr' = err
    /\ Locals("", "", NoDrive, <<>>, <<>>, <<>>)

\* if err != nil { return err }, after a call of the fetcher
PropagateAsNetwork(err) == "ErrNetwork"

Propagate(err) == err

\* a fetcher error that the call swallows
FetchFailedSwallowed(err) ==
    /\ ReturnErr("nil")
    /\ syFetchErr' = err

\* the fetcher has returned err and the call returns it
FetchFailed(err) ==
    /\ ReturnErr(Propagate(err))
    /\ syFetchErr' = err

\* FullSync: startPageToken, err := bernard.fetch.pageToken(driveID)
FsPageTokenOn(errors, tokens) ==
    /\ syPc = "idle"
    /\ \E d \in SyncDrives :
        /\ syCall' = [op |-> "FullSync", drive |-> d, hooks |-> 0]
        /\ syBefore' = StoredToken(Db, d)
        /\ syDbBefore' = Tables
    /\ syLog' = <<"GET startPageToken">>
    /\ \/ /\ \E e \in errors : FetchFailed(e)
          /\ UNCHANGED upLast
       \/ \E t \in tokens :
            /\ UNCHANGED syFetchErr
            /\ Locals(t, "", NoDrive, <<>>, <<>>, <<>>)
            /\ syPc' = IF Sleeps(safeSleep) THEN "fsSleep" ELSE "fsName"
            /\ upLast' = t
            /\ UNCHANGED syErr
    /\ UNCHANGED <<safeSleep, syPages, sySlept, syHooked, syHookLog, upEarlier,
                   orderVars, siftVars, interleaveVars, batchVars, pageVars, authVars, storeVars>>

FsPageToken == FsPageTokenOn(WithAuthErrors, StartPageTokens) /\ UNCHANGED upVars

\* FullSync: if bernard.safeSleep > 0 { bernard.fetch.sleep(bernard.safeSleep) }
FsSleep ==
    /\ syPc = "fsSleep"
    /\ sySlept' = safeSleep
    /\ syLog' = Append(syLog, "sleep")
    /\ syPc' = "fsName"
    /\ UNCHANGED <<safeSleep, syCall, syTok, syCursor, syDrive, syFolders, syFiles,
                   syRemoved, syPages, syHooked, syHookLog, syFetchErr, syErr, syBefore, syDbBefore, upLast, upEarlier,
                   orderVars, siftVars, interleaveVars, batchVars, pageVars, upVars, authVars, storeVars>>

\* FullSync: name, err := bernard.fetch.drive(driveID); drive := ds.Drive{...}
FsDriveOn(errors) ==
    /\ syPc = "fsName"
    /\ syLog' = Append(syLog, "GET drive")
    /\ \/ \E e \in errors : FetchFailed(e)
       \/ \E name \in DriveNames :
            /\ UNCHANGED syFetchErr
            /\ Locals(syTok, "",
                      [ID |-> syCall.drive, Name |-> name, PageToken |-> syTok],
                      <<>>, <<>>, <<>>)
            /\ syPc' = "fsContent"
            /\ UNCHANGED syErr
    /\ UNCHANGED <<safeSleep, syCall, syPages, sySlept, syHooked, syHookLog, syBefore, syDbBefore, upLast,
                   upEarlier, orderVars, siftVars, interleaveVars, batchVars, pageVars, authVars, storeVars>>

FsDrive == FsDriveOn(WithAuthErrors) /\ UNCHANGED upVars

\* allContent: one iteration of the page loop; after the last page the
\* folders are ordered and the function returns
FsPageOn(errors, pages, nexts) ==
    /\ syPc = "fsContent"
    /\ syPages < MaxPages
    /\ syPages' = syPages + 1
    /\ \/ /\ \E e \in errors : FetchFailed(e)
          /\ syLog' = Append(syLog, "GET files")
       \/ \E items \in pages, next \in nexts :
            /\ UNCHANGED syFetchErr
            /\ syPages + 1 = MaxPages => next = ""
            /\ \E c \in {convert(items)} :
                IF c.panic THEN ReturnErr("panic") /\ syLog' = Append(syLog, "GET files")
                ELSE \E o \in {IF next = ""
                               THEN orderFoldersOnHierarchy(syFolders \o c.folders)
                               ELSE [hangs |-> FALSE, ordered |-> syFolders \o c.folders]} :
                        /\ Locals(syTok, next, syDrive, o.ordered, syFiles \o c.files,
                                  <<>>)
                        /\ syPc' = IF o.hangs THEN "hung"
                                   ELSE IF next = "" THEN "fsStore" ELSE "fsContent"
                        /\ syLog' = IF next = "" /\ ~o.hangs
                                    THEN syLog \o <<"GET files", "fetched">>
                                    ELSE Append(syLog, "GET files")
                        /\ UNCHANGED syErr
    /\ UNCHANGED <<safeSleep, syCall, sySlept, syHooked, syHookLog, syBefore, syDbBefore, upLast, upEarlier,
                   orderVars, siftVars, interleaveVars, batchVars, pageVars, authVars, storeVars>>

FsPage == FsPageOn(WithAuthErrors, ListedPages, NextPageTokens) /\ UNCHANGED upVars

\* FullSync: err = bernard.store.FullSync(drive, folders, files)
FsStoreOn(faults) ==
    /\ syPc = "fsStore"
    /\ syLog' = Append(syLog, "FullSync")
    /\ \E fault \in faults :
        \E out \in {StoreFullSync(Db, syDrive, syFolders, syFiles, fault)} :
            /\ Returned("FullSync", syDrive.ID, out,
                        OrphanInput(Db, syDrive.ID, syFolders, syFiles), <<>>, FALSE)
            /\ ReturnErr(out.err)
    /\ UNCHANGED <<safeSleep, syCall, syPages, sySlept, syHooked, syHookLog, syFetchErr,
                   syBefore, syDbBefore, upLast, upEarlier, orderVars, siftVars, interleaveVars, batchVars, pageVars, authVars>>

FsStore == FsStoreOn({"none"} \cup Faults) /\ UNCHANGED upVars

\* PartialSync: pageToken, err := bernard.store.PageToken(driveID)
PsPageTokenOn(hookCounts, faults) ==
    /\ syPc = "idle"
    /\ \E d \in SyncDrives, n \in hookCounts :
        \E fault \in faults :
        \E r \in {StorePageToken(Db, d, fault)} :
            /\ syCall' = [op |-> "PartialSync", drive |-> d, hooks |-> n]
            /\ syBefore' = StoredToken(Db, d)
            /\ syDbBefore' = Tables
            /\ syLog' = <<"PageToken">>
            /\ IF r.err # "nil" THEN ReturnErr(r.err)
               ELSE /\ Locals(r.pageToken, r.pageToken,
                              [ID |-> d, Name |-> "", PageToken |-> ""],
                              <<>>, <<>>, <<>>)
                    /\ syPc' = "psContent"
                    /\ UNCHANGED syErr
    /\ UNCHANGED <<safeSleep, syPages, sySlept, syHooked, syHookLog, syFetchErr, upLast,
                   upEarlier, orderVars, siftVars, interleaveVars, batchVars, pageVars, authVars, storeVars>>

PsPageToken == PsPageTokenOn(0..MaxHooks, {"none"} \cup QueryFaults) /\ UNCHANGED upVars

\* changedContent: one iteration of the page loop; after the last page the
\* folders are ordered, the function returns, and PartialSync compares the
\* page tokens: if pageToken == diff.Drive.PageToken { return nil }
PsPageOn(errors, pages, nexts, newStarts) ==
    /\ syPc = "psContent"
    /\ syPages < MaxPages
    /\ syPages' = syPages + 1
    /\ \/ /\ \E e \in errors : FetchFailed(e)
          /\ syLog' = Append(syLog, "GET changes")
          /\ UNCHANGED <<upLast, upEarlier>>
       \/ \E changes \in pages, next \in nexts :
          \E newStart \in newStarts[next] :
            /\ UNCHANGED syFetchErr
            /\ syPages + 1 = MaxPages => next = ""
            /\ upLast' = newStart
            /\ upEarlier' = (upEarlier \/ (syPages > 0 /\ upLast # ""))
            /\ \E sifted \in {SiftChanges(changes, 1, syDrive.ID, syDrive.Name,
                                          syRemoved, <<>>)} :
               \E c \in {convert(sifted.changedItems)} :
               \E drive \in {[ID |-> syDrive.ID, Name |-> sifted.name,
                              PageToken |-> BatchPageToken(syDrive.PageToken, newStart)]} :
                IF c.panic THEN ReturnErr("panic") /\ syLog' = Append(syLog, "GET changes")
                ELSE IF next # ""
                THEN /\ Locals(syTok, next, drive, syFolders \o c.folders,
                               syFiles \o c.files, sifted.removedIDs)
                     /\ syPc' = "psContent"
                     /\ syLog' = Append(syLog, "GET changes")
                     /\ UNCHANGED syErr
                ELSE \E o \in {orderFoldersOnHierarchy(syFolders \o c.folders)} :
                        IF o.hangs
                        THEN /\ Locals(syTok, next, drive, syFolders \o c.folders,
                                       syFiles \o c.files, sifted.removedIDs)
                             /\ syPc' = "hung"
                             /\ syLog' = Append(syLog, "GET changes")
                             /\ UNCHANGED syErr
                        ELSE /\ syLog' = syLog \o <<"GET changes", "fetched">>
                             /\ IF SameToken(syTok, drive.PageToken)
                                THEN ReturnErr("nil")
                                ELSE /\ Locals(syTok, next, drive, o.ordered,
                                               syFiles \o c.files, sifted.removedIDs)
                                     /\ syPc' = "psHooks"
                                     /\ UNCHANGED syErr
    /\ UNCHANGED <<safeSleep, syCall, sySlept, syHooked, syHookLog, syBefore, syDbBefore, orderVars, siftVars, interleaveVars, batchVars, pageVars,
                   authVars, storeVars>>

PsPage ==
    /\ PsPageOn(WithAuthErrors, ChangedPages, NextPageTokens,
                [next \in NextPageTokens |-> NewStartPageTokens(next)])
    /\ UNCHANGED upVars

\* PartialSync: err = hk(diff.Drive, diff.ChangedFiles, diff.ChangedFolders,
\* diff.RemovedIDs); if err != nil { return err }
PsHook ==
    /\ syPc = "psHooks"
    /\ syHooked < syCall.hooks
    /\ syLog' = Append(syLog, "hook")
    /\ syHooked' = syHooked + 1
    /\ \E res \in HookResults :
        /\ syHookLog' = Append(syHookLog, [hook |-> syHooked + 1, res |-> res])
        /\ IF HookAborts(res)
           THEN ReturnErr(res)
           ELSE UNCHANGED <<syPc, syErr, syTok, syCursor, syDrive, syFolders, syFiles,
                            syRemoved>>
    /\ UNCHANGED <<safeSleep, syCall, syPages, sySlept, syFetchErr, syBefore, syDbBefore,
                   upLast, upEarlier, orderVars, siftVars, interleaveVars, batchVars, pageVars, upVars, authVars, storeVars>>

\* PartialSync, the hooks done: err = bernard.store.PartialSync(diff.Drive,
\* diff.ChangedFolders, diff.ChangedFiles, diff.RemovedIDs)
PsStoreOn(faults) ==
    /\ syPc = "psHooks"
    /\ syHooked = syCall.hooks
    /\ syLog' = Append(syLog, "PartialSync")
    /\ \E fault \in faults :
        \E out \in {StorePartialSync(Db, syDrive, syFolders, syFiles, syRemoved, fault)} :
            /\ Returned("PartialSync", syDrive.ID, out,
                        OrphanInput(Db, syDrive.ID, syFolders, syFiles), syRemoved,
                        StrayDescendant(Db, syDrive.ID, syFolders, syFiles, syRemoved))
            /\ ReturnErr(out.err)
    /\ UNCHANGED <<safeSleep, syCall, syPages, sySlept, syHooked, syHookLog, syFetchErr,
                   syBefore, syDbBefore, upLast, upEarlier, orderVars, siftVars, interleaveVars, batchVars, pageVars, authVars>>

PsStore == PsStoreOn({"none"} \cup Faults) /\ UNCHANGED upVars

\* the caller has the result; the next call can begin
SyReturn ==
    /\ syPc = "done"
    /\ syCall' = NoCall
    /\ syPc' = "idle"
    /\ syErr' = "none"
    /\ syPages' = 0
    /\ sySlept' = 0
    /\ syHooked' = 0
    /\ syHookLog' = <<>>
    /\ syFetchErr' = "none"
    /\ syBefore' = NoToken
    /\ syLog' = <<>>
    /\ syDbBefore' = NoDb
    /\ upLast' = ""
    /\ upEarlier' = FALSE
    /\ stLast' = NoResult
    /\ UNCHANGED <<safeSleep, syTok, syCursor, syDrive, syFolders, syFiles, syRemoved,
                   driveTbl, folderTbl, fileTbl, stLeaked, orderVars, siftVars, interleaveVars, batchVars, pageVars, upVars, authVars>>

InitSync ==
    /\ safeSleep \in SafeSleeps
    /\ SyncLocalsIdle
    /\ InitStore
    /\ InitOrderIdle
    /\ InitSiftIdle
    /\ InitUpstreamIdle
    /\ InitInterleaveIdle
    /\ InitBatchIdle
    /\ InitPagesIdle
    /\ InitAuthIdle

NextSync ==
    \/ FsPageToken \/ FsSleep \/ FsDrive \/ FsPage \/ FsStore
    \/ PsPageToken \/ PsPage \/ PsHook \/ PsStore
    \/ SyReturn

SpecSync == InitSync /\ [][NextSync]_vars

(***************************************************************************)
(* Claims about Bernard.PartialSync (checked under SpecSync)               *)
(***************************************************************************)
\* C3: when a Bernard.PartialSync call has returned an error, whichever step
\* it came from, the drive's stored page token is the one stored when the
\* call began.
C3_TokenKeptOnError ==
    (syPc = "done" /\ syCall.op = "PartialSync" /\ syErr # "nil")
        => StoredToken(Db, syCall.drive) = syBefore

\* Store.PartialSync, called with a page token other than the stored one
\* after two pages and a hook, has failed with a data anomaly
C3_Witness ==
    /\ syPc = "done"
    /\ syCall.op = "PartialSync"
    /\ syErr = "ErrDataAnomaly"
    /\ stLast.op = "PartialSync"
    /\ syPages = 2
    /\ syHooked > 0
    /\ syBefore = [err |-> "nil", pageToken |-> "t1"]
    /\ upLast = "t2"

\* C4: when a Bernard.PartialSync call that wrote to the store has returned
\* nil, the drive's stored page token is the newStartPageToken of the last
\* page received, however many pages there were.
C4_TokenOfLastPage ==
    (syPc = "done" /\ syCall.op = "PartialSync" /\ syErr = "nil"
        /\ stLast.op = "PartialSync")
        => StoredToken(Db, syCall.drive) = [err |-> "nil", pageToken |-> upLast]

\* a two-page PartialSync has succeeded and written; its first page carried a
\* newStartPageToken as well, the last one carried t2
C4_Witness ==
    /\ syPc = "done"
    /\ syCall.op = "PartialSync"
    /\ syErr = "nil"
    /\ stLast.op = "PartialSync"
    /\ stLast.tx = "committed"
    /\ syPages = 2
    /\ upEarlier
    /\ upLast = "t2"
    /\ syBefore.pageToken = "t1"

\* the running or returned call is a PartialSync whose change fetch has
\* returned
ChangesFetched == syCall.op = "PartialSync" /\ "fetched" \in Range(syLog)

\* C12: when changedContent has returned the page token that was read from the
\* store, PartialSync returns nil without invoking a hook and without calling
\* Store.PartialSync; the store is as it was when the call began.
C12_NoChangeShortCircuit ==
    (ChangesFetched /\ upLast = syBefore.pageToken) =>
        /\ syPc = "done"
        /\ syErr = "nil"
        /\ syHooked = 0
        /\ "hook" \notin Range(syLog)
        /\ "PartialSync" \notin Range(syLog)
        /\ stLast.op = "none"
        /\ Tables = syDbBefore

\* a two-page change fetch ended on the stored token t1 and the call returned
C12_Witness ==
    /\ ChangesFetched
    /\ syPc = "done"
    /\ syBefore = [err |-> "nil", pageToken |-> "t1"]
    /\ upLast = "t1"
    /\ syLog = <<"PageToken", "GET changes", "GET changes", "fetched">>
    /\ syErr = "nil"
    /\ folderTbl # {}

\* a PartialSync call is running or has returned on a drive that had no drive
\* row when it began
NoTokenStored ==
    /\ syCall.op = "PartialSync"
    /\ ~\E r \in syDbBefore.drive : r.id = syCall.drive

\* C13: a PartialSync for a drive without a stored page token returns
\* ErrFullSync with no HTTP request, no hook and no write; once a FullSync has
\* committed the drive's row, the row stays, and a PartialSync for the drive
\* does not return ErrFullSync.
C13_FullSyncRequiredOnce ==
    /\ NoTokenStored =>
        /\ syPc = "done"
        /\ syErr = "ErrFullSync"
        /\ syLog = <<"PageToken">>
        /\ stLast.op = "none"
        /\ Tables = syDbBefore
    /\ (syPc = "done" /\ syCall.op = "FullSync" /\ syErr = "nil") =>
        \E r \in driveTbl : r.id = syCall.drive
    /\ (syCall.op = "PartialSync" /\ syErr = "ErrFullSync") => NoTokenStored

\* the positions of the log where a hook was invoked
HookPositions == {i \in 1..Len(syLog) : syLog[i] = "hook"}

\* C14: the hooks of a PartialSync call are invoked in argument order, each
\* once, after the whole change fetch and before Store.PartialSync, while the
\* store is as it was when the call began; the first hook error ends the call
\* with that error, with no later hook and no call of Store.PartialSync, and
\* Store.PartialSync is called only after every hook has returned nil.
C14_HookOrdering ==
    syCall.op = "PartialSync" =>
        /\ Len(syHookLog) <= syCall.hooks
        /\ Cardinality(HookPositions) = Len(syHookLog)
        /\ \A i \in 1..Len(syHookLog) :
            /\ syHookLog[i].hook = i
            /\ i < Len(syHookLog) => syHookLog[i].res = "nil"
        /\ \A i \in HookPositions :
            /\ \E j \in 1..(i - 1) : syLog[j] = "fetched"
            /\ \A j \in 1..(i - 1) : syLog[j] # "PartialSync"
            /\ \A j \in (i + 1)..Len(syLog) : syLog[j] \notin {"GET changes", "fetched"}
        /\ "PartialSync" \in Range(syLog) =>
            /\ Len(syHookLog) = syCall.hooks
            /\ \A i \in 1..Len(syHookLog) : syHookLog[i].res = "nil"
        /\ "PartialSync" \notin Range(syLog) =>
            /\ Tables = syDbBefore
            /\ stLast.op = "none"
        /\ (syHookLog # <<>> /\ syHookLog[Len(syHookLog)].res # "nil") =>
            /\ syPc = "done"
            /\ syErr = syHookLog[Len(syHookLog)].res
            /\ "PartialSync" \notin Range(syLog)

\* of two hooks the first returned nil and the second an error: the call
\* has returned that error without a store write
C14_Witness ==
    /\ syCall.op = "PartialSync"
    /\ syCall.hooks = 2
    /\ syHookLog = <<[hook |-> 1, res |-> "nil"], [hook |-> 2, res |-> "ErrHook"]>>
    /\ syPc = "done"
    /\ syErr = "ErrHook"
    /\ syLog = <<"PageToken", "GET changes", "fetched", "hook", "hook">>
    /\ folderTbl # {}

(***************************************************************************)
(* Claims about Bernard.FullSync (checked under SpecSync)                  *)
(***************************************************************************)
\* what FullSync does before the first page of allContent, in order
FullSyncPrelude ==
    <<"GET startPageToken">>
        \o (IF safeSleep > 0 THEN <<"sleep">> ELSE <<>>)
        \o <<"GET drive">>

\* the steps of the log after the first n
LogFrom(n) == SubSeq(syLog, n + 1, Len(syLog))

\* a run of page requests, then the return of allContent, then the store call
IsPagesThenStore(log) ==
    \E k \in 0..Len(log) :
        /\ \A i \in 1..k : log[i] = "GET files"
        /\ SubSeq(log, k + 1, Len(log)) \in
                {<<>>, <<"fetched">>, <<"fetched", "FullSync">>}
        /\ Len(log) > k => k > 0

\* C15: FullSync requests the start page token, then sleeps if and only if
\* safeSleep > 0, then requests the drive name, then requests the pages of
\* allContent, and calls Store.FullSync once, after the last page, with the
\* start page token of the first step.
C15_FullSyncStepOrder ==
    syCall.op = "FullSync" =>
        /\ \/ /\ Len(syLog) <= Len(FullSyncPrelude)
              /\ syLog = SubSeq(FullSyncPrelude, 1, Len(syLog))
           \/ /\ Len(syLog) > Len(FullSyncPrelude)
              /\ SubSeq(syLog, 1, Len(FullSyncPrelude)) = FullSyncPrelude
              /\ IsPagesThenStore(LogFrom(Len(FullSyncPrelude)))
        /\ "sleep" \in Range(syLog) => sySlept = safeSleep
        /\ (syPc = "done" /\ syErr = "nil") => syLog[Len(syLog)] = "FullSync"
        /\ stLast.op = "FullSync" <=> "FullSync" \in Range(syLog)
        /\ syPc = "fsStore" => syDrive.PageToken = upLast
        /\ (stLast.op = "FullSync" /\ stLast.tx = "committed") =>
                StoredToken(Db, syCall.drive) = [err |-> "nil", pageToken |-> upLast]

\* a FullSync with a safe sleep of 60 seconds and two pages has committed the
\* start page token t1 over a store that had none
C15_Witness ==
    /\ syCall.op = "FullSync"
    /\ syPc = "done"
    /\ syErr = "nil"
    /\ safeSleep = 60
    /\ syLog = <<"GET startPageToken", "sleep", "GET drive", "GET files", "GET files",
                 "fetched", "FullSync">>
    /\ upLast = "t1"
    /\ syBefore.err = "ErrFullSync"
    /\ StoredToken(Db, syCall.drive).pageToken = "t1"
    /\ folderTbl # {}

\* a FullSync call has returned after the fetcher failed
FullSyncFetchFailed ==
    /\ syCall.op = "FullSync"
    /\ syFetchErr # "none"

\* C17: when the start page token request, the drive name request or a page
\* request of allContent fails, FullSync returns the fetcher's error as it
\* is, Store.FullSync is not called and the store is as it was.
C17_FullSyncNoRecovery ==
    FullSyncFetchFailed =>
        /\ syPc = "done"
        /\ syErr = syFetchErr
        /\ syLog[Len(syLog)] \in {"GET startPageToken", "GET drive", "GET files"}
        /\ "FullSync" \notin Range(syLog)
        /\ stLast.op = "none"
        /\ Tables = syDbBefore
        /\ StoredToken(Db, syCall.drive) = syBefore

\* the second page of allContent failed with ErrNotFound over a store that
\* holds rows of an earlier sync
C17_Witness ==
    /\ FullSyncFetchFailed
    /\ syPc = "done"
    /\ syErr = "ErrNotFound"
    /\ safeSleep = 60
    /\ syLog = <<"GET startPageToken", "sleep", "GET drive", "GET files", "GET files">>
    /\ folderTbl # {}
    /\ syBefore.err = "nil"

\* a page request of allContent or changedContent has failed after at least
\* one page had been received
LaterPageFailed ==
    /\ syFetchErr # "none"
    /\ syPages >= 2
    /\ syLog[Len(syLog)] \in {"GET files", "GET changes"}

\* C34: when a page request of allContent or changedContent fails after
\* earlier pages were received, the call returns that error and nothing of the
\* earlier pages: no hook was invoked, no store function was called, the
\* tables and the stored page token are those from when the call began; and a
\* PartialSync that starts its change fetch does so with the stored page token.
C34_NoPartialBatch ==
    /\ LaterPageFailed =>
        /\ syPc = "done"
        /\ syErr = syFetchErr
        /\ syFolders = <<>> /\ syFiles = <<>> /\ syRemoved = <<>>
        /\ "hook" \notin Range(syLog)
        /\ syHooked = 0
        /\ "PartialSync" \notin Range(syLog)
        /\ "FullSync" \notin Range(syLog)
        /\ stLast.op = "none"
        /\ Tables = syDbBefore
        /\ StoredToken(Db, syCall.drive) = syBefore
    /\ (syCall.op = "PartialSync" /\ syPc = "psContent" /\ syPages = 0) =>
        StoredToken(Db, syCall.drive) = [err |-> "nil", pageToken |-> syTok]

\* the second page of a PartialSync with a hook has failed with a server
\* error; the store holds rows and the token t1
C34_Witness ==
    /\ LaterPageFailed
    /\ syCall.op = "PartialSync"
    /\ syCall.hooks > 0
    /\ syErr = "ErrNetwork"
    /\ syLog = <<"PageToken", "GET changes", "GET changes">>
    /\ syBefore = [err |-> "nil", pageToken |-> "t1"]
    /\ folderTbl # {}

\* a FullSync or PartialSync call has returned nil after its store call
\* committed
SyncCommitted ==
    /\ syPc = "done"
    /\ syErr = "nil"
    /\ stLast.op \in {"FullSync", "PartialSync"}
    /\ stLast.tx = "committed"

\* C38: after a FullSync or PartialSync that wrote to the store and returned
\* nil, the drive's stored page token is not the empty string.  The code
\* stores the startPageToken, and the newStartPageToken of the last page of
\* changes, as decoded: a response without the field stores "".
C38_TokenNeverEmpty ==
    SyncCommitted => StoredToken(Db, syCall.drive).pageToken # ""

\* C38 where the last response carried its token
C38_HoldsWithToken ==
    (SyncCommitted /\ upLast # "") => StoredToken(Db, syCall.drive).pageToken # ""

(***************************************************************************)
(* SpecSnapshot: Bernard.FullSync into an empty store while the drive       *)
(* changes at Google, then Bernard.PartialSync.  The steps are those of    *)
(* SpecSync; the answers come from the drive: files.list lists the items   *)
(* as they are when a page is read, changes.list gives the latest state of *)
(* every item changed since the page token.                                *)
(***************************************************************************)
\* the most changes the drive undergoes before a removal's last cascade
MaxUpstreamLog == 2

UpFolderIDs == {"a", "b"}
UpFileIDs == {"f"}
UpIDs == UpFolderIDs \cup UpFileIDs

\* the order in which a page gives its items
ListOrder == <<"f", "b", "a">>

\* page tokens: the n-th is the start page token after n changes
UpTokens == <<"u0", "u1", "u2", "u3", "u4", "u5", "u6", "u7">>
UpToken(n) == UpTokens[n + 1]
TokenPos(t) == CHOOSE n \in 0..(Len(UpTokens) - 1) : UpTokens[n + 1] = t

UpItem(id, name, parent) ==
    DriveItem(id, name, IF id \in UpFolderIDs THEN FolderMime ELSE "text/plain",
              <<parent>>, "D1")

IdsOf(items) == {x.ID : x \in items}

ItemOf(items, id) == CHOOSE x \in items : x.ID = id

RECURSIVE IsUnder(_, _, _, _)
\* the item id lies under the folder (or root) top, at any depth
IsUnder(items, id, top, fuel) ==
    /\ fuel > 0
    /\ id \in IdsOf(items)
    /\ LET parent == ItemOf(items, id).Parents[1]
       IN  parent = top \/ IsUnder(items, parent, top, fuel - 1)

\* every id once, every parent a folder of the drive, every item under the root
IsTree(items) ==
    /\ \A x, y \in items : x.ID = y.ID => x = y
    /\ \A x \in items :
        /\ x.Parents[1] \in {"D1"} \cup (UpFolderIDs \ {x.ID})
        /\ IsUnder(items, x.ID, "D1", Cardinality(items))

UpInitial ==
    {items \in SUBSET {UpItem(i, "n1", p) : i \in UpIDs, p \in {"D1"} \cup UpFolderIDs} :
        IsTree(items)}

\* the ids of a set of items, in the order of listing
RECURSIVE InOrder(_, _)
InOrder(ids, i) ==
    IF i > Len(ListOrder) THEN <<>>
    ELSE (IF ListOrder[i] \in ids THEN <<ListOrder[i]>> ELSE <<>>) \o InOrder(ids, i + 1)

\* files.list does not ask for driveId
ListingOf(items) ==
    LET ids == InOrder(IdsOf(items), 1)
    IN  [i \in 1..Len(ids) |-> [ItemOf(items, ids[i]) EXCEPT !.DriveID = ""]]

RECURSIVE LatestOnly(_)
\* one entry per id, at the place of its last change
LatestOnly(log) ==
    IF log = <<>> THEN <<>>
    ELSE IF Head(log) \in Range(Tail(log)) THEN LatestOnly(Tail(log))
    ELSE <<Head(log)>> \o LatestOnly(Tail(log))

\* changes.list from the position on: the item as it is now, or its removal
FeedSince(pos) ==
    LET ids == LatestOnly(SubSeq(upLog, pos + 1, Len(upLog)))
    IN  [i \in 1..Len(ids) |->
            IF ids[i] \in IdsOf(upItems)
            THEN DriveChange("", "", ids[i], FALSE, ItemOf(upItems, ids[i]))
            ELSE DriveChange("", "", ids[i], TRUE, NoItem)]

\* newStartPageToken comes with the last page
UpNewStarts(next) == IF next = "" THEN {UpToken(Len(upLog))} ELSE {""}

\* the drive changes between the start page token request and the last page
\* of files.list
InSnapshotWindow ==
    /\ syCall.op = "FullSync"
    /\ syPc \in {"fsName", "fsContent"}
    /\ Len(upLog) < MaxUpstreamLog

UpChanged(items, ids) ==
    /\ upItems' = items
    /\ upLog' = upLog \o ids
    /\ UNCHANGED <<upListed, upSent, orderVars, authVars, storeVars, syncVars, siftVars, interleaveVars, batchVars, pageVars>>

UpCreate ==
    /\ InSnapshotWindow
    /\ \E i \in UpIDs \ IdsOf(upItems) :
        \E p \in {"D1"} \cup (UpFolderIDs \cap IdsOf(upItems)) :
            UpChanged(upItems \cup {UpItem(i, "n1", p)}, <<i>>)

UpRename ==
    /\ InSnapshotWindow
    /\ \E x \in upItems :
        /\ x.Name = "n1"
        /\ UpChanged((upItems \ {x}) \cup {[x EXCEPT !.Name = "n2"]}, <<x.ID>>)

UpMove ==
    /\ InSnapshotWindow
    /\ \E x \in upItems :
        \E p \in ({"D1"} \cup (UpFolderIDs \cap IdsOf(upItems))) \ {x.ID, x.Parents[1]} :
        \E moved \in {(upItems \ {x}) \cup {[x EXCEPT !.Parents = <<p>>]}} :
            /\ IsTree(moved)
            /\ UpChanged(moved, <<x.ID>>)

\* an item is removed with everything under it, each with its own change
UpRemove ==
    /\ InSnapshotWindow
    /\ \E x \in upItems :
        \E gone \in {{x} \cup {y \in upItems :
                                 IsUnder(upItems, y.ID, x.ID, Cardinality(upItems))}} :
            UpChanged(upItems \ gone, InOrder(IdsOf(gone), 1))

InitSnapshot ==
    /\ upItems \in UpInitial
    /\ upLog = <<>>
    /\ upListed = {}
    /\ upSent = 0
    /\ InitSyncIdle
    /\ InitStore
    /\ InitOrderIdle
    /\ InitSiftIdle
    /\ InitPagesIdle
    /\ InitBatchIdle
    /\ InitInterleaveIdle
    /\ InitAuthIdle

\* FullSync on the empty store: the start page token is the log's length
SnFsPageToken ==
    /\ driveTbl = {}
    /\ FsPageTokenOn({}, {UpToken(Len(upLog))})
    /\ upListed' = {}
    /\ UNCHANGED <<upItems, upLog, upSent>>

SnFsDrive == FsDriveOn({}) /\ UNCHANGED upVars

\* a page of files.list: the next ids in the order of listing, each item as
\* it is when the page is read; the last page ends the order
SnFsPage ==
    /\ syPc = "fsContent"
    /\ \E k \in 0..(Len(ListOrder) - Cardinality(upListed)) :
        \E read \in {{ListOrder[i] : i \in (Cardinality(upListed) + 1)..(Cardinality(upListed) + k)}} :
            /\ FsPageOn({}, {ListingOf({x \in upItems : x.ID \in read})},
                        {IF Cardinality(upListed) + k = Len(ListOrder) THEN "" ELSE "p"})
            /\ upListed' = upListed \cup read
    /\ UNCHANGED <<upItems, upLog, upSent>>

\* the store call, or a Prepare failure that leaves the transaction open
SnFsStore == FsStoreOn({"none", "prepare"}) /\ UNCHANGED upVars

\* PartialSync once the drive has a row
SnPsPageToken ==
    /\ driveTbl # {}
    /\ PsPageTokenOn({0}, {"none"})
    /\ upSent' = 0
    /\ UNCHANGED <<upItems, upLog, upListed>>

\* a page of changes.list: the next changes of the feed
SnPsPage ==
    /\ syPc = "psContent"
    /\ \E feed \in {FeedSince(TokenPos(syTok))} :
        \E k \in 0..(Len(feed) - upSent) :
            /\ k = 0 => upSent = Len(feed)
            /\ PsPageOn({}, {SubSeq(feed, upSent + 1, upSent + k)},
                        {IF upSent + k = Len(feed) THEN "" ELSE "p"},
                        [next \in NextPageTokens |-> UpNewStarts(next)])
            /\ upSent' = upSent + k
    /\ UNCHANGED <<upItems, upLog, upListed>>

SnPsStore == PsStoreOn({"none"}) /\ UNCHANGED upVars

NextSnapshot ==
    \/ UpCreate \/ UpRename \/ UpMove \/ UpRemove
    \/ SnFsPageToken \/ SnFsDrive \/ SnFsPage \/ SnFsStore
    \/ SnPsPageToken \/ SnPsPage \/ SnPsStore
    \/ SyReturn

SpecSnapshot == InitSnapshot /\ [][NextSnapshot]_vars

(***************************************************************************)
(* Claims about snapshot and replay (checked under SpecSnapshot)           *)
(***************************************************************************)
\* the folder rows of the drive, its root aside, and the file rows
StoreContent ==
    [folders |-> {[id |-> r.id, name |-> r.name, parent |-> r.parent,
                   trashed |-> r.trashed] :
                        r \in {x \in folderTbl : x.drive = "D1" /\ x.id # "D1"}},
     files |-> {[id |-> r.id, name |-> r.name, parent |-> r.parent,
                 trashed |-> r.trashed, md5 |-> r.md5, size |-> r.size] :
                        r \in {x \in fileTbl : x.drive = "D1"}}]

\* the same of the drive at Google
UpstreamContent ==
    [folders |-> {[id |-> x.ID, name |-> x.Name, parent |-> x.Parents[1],
                   trashed |-> x.Trashed] :
                        x \in {y \in upItems : y.MimeType = FolderMime}},
     files |-> {[id |-> x.ID, name |-> x.Name, parent |-> x.Parents[1],
                 trashed |-> x.Trashed, md5 |-> x.MD5Checksum, size |-> x.Size] :
                        x \in {y \in upItems : y.MimeType # FolderMime}}]

\* C16: after a FullSync into the empty store that read its snapshot while
\* items were created, changed and removed, and a PartialSync that returned
\* nil with the drive at rest, the folder and file rows of the drive are the
\* drive's items.
C16_ConvergesAfterReplay ==
    (syCall.op = "PartialSync" /\ syPc = "done" /\ syErr = "nil")
        => StoreContent = UpstreamContent

\* a replay that was needed: the snapshot stored an item that was removed
\* before the last page and missed one that was created or changed, and the
\* PartialSync removed a file row and rewrote the rest
C16_Witness ==
    /\ syCall.op = "PartialSync" /\ syPc = "done" /\ syErr = "nil"
    /\ Len(upLog) >= 2
    /\ "f" \in stLast.removed
    /\ \E r \in syDbBefore.file : r.id = "f"
    /\ \E x \in upItems :
        x.MimeType = FolderMime /\ x.ID \notin {r.id : r \in syDbBefore.folder}
    /\ StoreContent = UpstreamContent

(***************************************************************************)
(* The differences hook (hook.go): SELECT ... WHERE id=? on the folder and *)
(* the file table, for every changed folder, changed file and removed id.  *)
(***************************************************************************)
\* QueryRow(id): the first row the statement yields; the statement does not
\* name the drive, so with the id in two drives either row may come first
QueryRow(rows, id, first) ==
    LET match == {r \in rows : r.id = id}
        preferred == {r \in match : r.drive = first}
    IN  IF match = {} THEN {}
        ELSE {CHOOSE r \in (IF preferred # {} THEN preferred ELSE match) : TRUE}

\* a comparison of the names only
FileDiffersByName(row, file) == row.name # file.Name

\* f.Name != folder.Name || f.Parent != folder.Parent || f.Trashed != folder.Trashed
FolderDiffers(row, folder) ==
    row.name # folder.Name \/ row.parent # folder.Parent \/ row.trashed # folder.Trashed

\* f.Name != file.Name || f.Parent != file.Parent || f.Trashed != file.Trashed
\* || f.Size != file.Size || f.MD5 != file.MD5
FileDiffers(row, file) ==
    \/ row.name # file.Name \/ row.parent # file.Parent \/ row.trashed # file.Trashed
    \/ row.size # file.Size \/ row.md5 # file.MD5

RECURSIVE DiffFolders(_, _, _, _, _, _)
\* for _, folder := range folders; Scan of a NULL parent into a string fails
DiffFolders(db, folders, i, first, added, changed) ==
    IF i > Len(folders) THEN [err |-> "nil", added |-> added, changed |-> changed]
    ELSE LET q == QueryRow(db.folder, folders[i].ID, first)
         IN  IF q = {}
             THEN DiffFolders(db, folders, i + 1, first, Append(added, folders[i]), changed)
             ELSE LET row == CHOOSE r \in q : TRUE
                  IN  IF row.parent = NULL
                      THEN [err |-> "ErrDatabase", added |-> added, changed |-> changed]
                      ELSE IF FolderDiffers(row, folders[i])
                      THEN DiffFolders(db, folders, i + 1, first, added,
                                       Append(changed, folders[i]))
                      ELSE DiffFolders(db, folders, i + 1, first, added, changed)

RECURSIVE DiffFiles(_, _, _, _, _, _)
\* for _, file := range files
DiffFiles(db, files, i, first, added, changed) ==
    IF i > Len(files) THEN [err |-> "nil", added |-> added, changed |-> changed]
    ELSE LET q == QueryRow(db.file, files[i].ID, first)
         IN  IF q = {}
             THEN DiffFiles(db, files, i + 1, first, Append(added, files[i]), changed)
             ELSE IF FileDiffers(CHOOSE r \in q : TRUE, files[i])
             THEN DiffFiles(db, files, i + 1, first, added, Append(changed, files[i]))
             ELSE DiffFiles(db, files, i + 1, first, added, changed)

RECURSIVE DiffRemoved(_, _, _, _, _, _)
\* for _, id := range removed: a file first, then a folder, else ErrDataAnomaly
DiffRemoved(db, removed, i, first, files, folders) ==
    IF i > Len(removed) THEN [err |-> "nil", files |-> files, folders |-> folders]
    ELSE LET qFile == QueryRow(db.file, removed[i], first)
             qFolder == QueryRow(db.folder, removed[i], first)
         IN  IF qFile # {}
             THEN LET row == CHOOSE r \in qFile : TRUE
                  IN  DiffRemoved(db, removed, i + 1, first,
                          Append(files, File(row.id, row.name, row.parent, row.trashed,
                                             row.size, row.md5)),
                          folders)
             ELSE IF qFolder # {}
             THEN LET row == CHOOSE r \in qFolder : TRUE
                  IN  IF row.parent = NULL
                      THEN [err |-> "ErrDatabase", files |-> files, folders |-> folders]
                      ELSE DiffRemoved(db, removed, i + 1, first, files,
                               Append(folders, Folder(row.id, row.name, row.parent,
                                                      row.trashed)))
             ELSE [err |-> "ErrDataAnomaly", files |-> files, folders |-> folders]

\* the hook of NewDifferencesHook: what it returns and appends to diff
DifferencesHook(db, batch, first) ==
    LET fo == DiffFolders(db, batch.folders, 1, first, <<>>, <<>>)
        fi == IF fo.err = "nil" THEN DiffFiles(db, batch.files, 1, first, <<>>, <<>>)
              ELSE [err |-> fo.err, added |-> <<>>, changed |-> <<>>]
        re == IF fi.err = "nil" THEN DiffRemoved(db, batch.removedIDs, 1, first, <<>>, <<>>)
              ELSE [err |-> fi.err, files |-> <<>>, folders |-> <<>>]
    IN  [ran |-> TRUE, err |-> re.err,
         AddedFiles |-> fi.added, ChangedFiles |-> fi.changed, RemovedFiles |-> re.files,
         AddedFolders |-> fo.added, ChangedFolders |-> fo.changed,
         RemovedFolders |-> re.folders]

(***************************************************************************)
(* SpecBatch: a store filled by Datastore.FullSync, then one               *)
(* Bernard.PartialSync for D1 from the fetched diff on: the differences    *)
(* hook, Datastore.PartialSync, and the same diff stored a second time.    *)
(***************************************************************************)
\* what the first FullSync of D1 carries
SnapshotFolders == {Folder("a", "n1", "D1", FALSE), Folder("b", "n1", "a", FALSE)}
SnapshotFiles == {File("f", "n1", "D1", FALSE, 1, "m1"), File("f", "n1", "b", FALSE, 1, "m1")}

\* what the diff carries
DiffFolderInputs == {Folder("a", "n1", "D1", FALSE), Folder("a", "n2", "D1", TRUE),
                     Folder("b", "n1", "a", FALSE)}
DiffFileInputs == {File("f", "n1", "D1", FALSE, 1, "m1"), File("f", "n2", "b", TRUE, 2, "m2")}
DiffRemovedInputs == {<<>>, <<"a">>, <<"b", "f">>, <<"a", "b", "f">>, <<"z">>, <<"f", "z">>}

Diffs ==
    [drive : [ID : {"D1"}, Name : {"", "n2"}, PageToken : {"t2"}],
     folders : SeqsUpTo(DiffFolderInputs, MaxFolders),
     files : SeqsUpTo(DiffFileInputs, MaxFiles),
     removedIDs : DiffRemovedInputs]

InitBatch ==
    /\ btPc = "empty"
    /\ btBatch = NoBatch
    /\ btBefore = NoDb
    /\ btDiff = NoDifference
    /\ btOnce = NoDb
    /\ InitStore
    /\ InitOrderIdle
    /\ InitAuthIdle
    /\ InitSyncIdle
    /\ InitSiftIdle
    /\ InitUpstreamIdle
    /\ InitInterleaveIdle
    /\ InitPagesIdle

BatchFrame == UNCHANGED <<orderVars, authVars, syncVars, siftVars, interleaveVars, upVars, pageVars>>

\* Datastore.FullSync of D1 into the empty store
BtFullSync ==
    /\ btPc = "empty"
    /\ \E folders \in SeqsUpTo(SnapshotFolders, MaxFolders),
          files \in SeqsUpTo(SnapshotFiles, MaxFiles) :
        \E drive \in {[ID |-> "D1", Name |-> "n1", PageToken |-> "t1"]} :
        \E out \in {StoreFullSync(Db, drive, folders, files, "none")} :
            /\ Returned("FullSync", "D1", out, OrphanInput(Db, "D1", folders, files),
                        <<>>, FALSE)
            /\ btPc' = IF out.err = "nil" THEN "synced" ELSE "failed"
    /\ UNCHANGED <<btBatch, btBefore, btDiff, btOnce>>
    /\ BatchFrame

\* Datastore.FullSync of D2, which has a folder a and a file f of its own
BtFullSyncOther ==
    /\ btPc = "synced"
    /\ \A r \in driveTbl : r.id # "D2"
    /\ \E out \in {StoreFullSync(Db, [ID |-> "D2", Name |-> "n1", PageToken |-> "t1"],
                                  <<Folder("a", "n2", "D2", FALSE)>>,
                                  <<File("f", "n2", "a", FALSE, 2, "m2")>>, "none")} :
        Returned("FullSync", "D2", out, FALSE, <<>>, FALSE)
    /\ UNCHANGED <<btPc, btBatch, btBefore, btDiff, btOnce>>
    /\ BatchFrame

\* a call that fails at Prepare and leaves its transaction open
BtLeak ==
    /\ btPc = "synced"
    /\ ~stLeaked
    /\ \E out \in {StorePartialSync(Db, [ID |-> "D1", Name |-> "", PageToken |-> "t2"],
                                     <<>>, <<>>, <<>>, "prepare")} :
        Returned("PartialSync", "D1", out, FALSE, <<>>, FALSE)
    /\ UNCHANGED <<btPc, btBatch, btBefore, btDiff, btOnce>>
    /\ BatchFrame

\* PartialSync: diff, err := bernard.fetch.changedContent(driveID, pageToken)
BtFetched ==
    /\ btPc = "synced"
    /\ \E batch \in Diffs : btBatch' = batch
    /\ btBefore' = Tables
    /\ btPc' = "hooks"
    /\ UNCHANGED <<btDiff, btOnce, storeVars>>
    /\ BatchFrame

\* PartialSync: err = hk(diff.Drive, diff.ChangedFiles, diff.ChangedFolders,
\* diff.RemovedIDs); if err != nil { return err }
BtHook ==
    /\ btPc = "hooks"
    /\ \E first \in Drives :
        \E out \in {DifferencesHook(Db, btBatch, first)} :
            /\ btDiff' = out
            /\ btPc' = IF HookAborts(out.err) THEN "aborted" ELSE "store"
    /\ UNCHANGED <<btBatch, btBefore, btOnce, storeVars>>
    /\ BatchFrame

\* PartialSync: err = bernard.store.PartialSync(diff.Drive, ...), after the
\* hook or without one
BtStore ==
    /\ btPc \in {"hooks", "store"}
    /\ \E out \in {StorePartialSync(Db, btBatch.drive, btBatch.folders, btBatch.files,
                                     btBatch.removedIDs, "none")} :
        /\ Returned("PartialSync", "D1", out,
                    OrphanInput(Db, "D1", btBatch.folders, btBatch.files),
                    btBatch.removedIDs,
                    StrayDescendant(Db, "D1", btBatch.folders, btBatch.files,
                                    btBatch.removedIDs))
        /\ btOnce' = [drive |-> out.db.drive, folder |-> out.db.folder,
                      file |-> out.db.file]
        /\ btPc' = IF out.err = "nil" THEN "once" ELSE "failed"
    /\ UNCHANGED <<btBatch, btBefore, btDiff>>
    /\ BatchFrame

\* Datastore.FullSync called with the same folders and files
BtStoreFull ==
    /\ btPc = "hooks"
    /\ \E out \in {StoreFullSync(Db, [ID |-> "D1", Name |-> "n1", PageToken |-> "t1"],
                                  btBatch.folders, btBatch.files, "none")} :
        /\ Returned("FullSync", "D1", out,
                    OrphanInput(Db, "D1", btBatch.folders, btBatch.files), <<>>, FALSE)
        /\ btOnce' = [drive |-> out.db.drive, folder |-> out.db.folder,
                      file |-> out.db.file]
        /\ btPc' = IF out.err = "nil" THEN "full" ELSE "failed"
    /\ UNCHANGED <<btBatch, btBefore, btDiff>>
    /\ BatchFrame

\* the same diff stored again
BtAgain ==
    /\ btPc = "once"
    /\ \E out \in {StorePartialSync(Db, btBatch.drive, btBatch.folders, btBatch.files,
                                     btBatch.removedIDs, "none")} :
        Returned("PartialSync", "D1", out,
                 OrphanInput(Db, "D1", btBatch.folders, btBatch.files),
                 btBatch.removedIDs,
                 StrayDescendant(Db, "D1", btBatch.folders, btBatch.files,
                                 btBatch.removedIDs))
    /\ btPc' = "twice"
    /\ UNCHANGED <<btBatch, btBefore, btDiff, btOnce>>
    /\ BatchFrame

NextBatch ==
    BtFullSync \/ BtFullSyncOther \/ BtLeak \/ BtFetched \/ BtHook \/ BtStore \/ BtStoreFull
        \/ BtAgain

SpecBatch == InitBatch /\ [][NextBatch]_vars

(***************************************************************************)
(* Claims about upserts and the differences hook (checked under SpecBatch) *)
(***************************************************************************)
\* the element at i is the last one of the sequence with its ID
LastOfID(seq, i) == \A j \in (i + 1)..Len(seq) : seq[j].ID # seq[i].ID

\* the ids a committed call deleted: FullSync deletes none
DeletedIDs == IF stLast.op = "PartialSync" THEN Range(btBatch.removedIDs) ELSE {}

FolderRowOf(x, d) ==
    [id |-> x.ID, drive |-> d, name |-> x.Name, parent |-> x.Parent, trashed |-> x.Trashed]

FileRowOf(x, d) ==
    [id |-> x.ID, drive |-> d, name |-> x.Name, md5 |-> x.MD5, parent |-> x.Parent,
     size |-> x.Size, trashed |-> x.Trashed]

\* C27: after a Datastore.FullSync or Datastore.PartialSync call that returned
\* nil, every folder and file of the input (the last one of its id, not removed
\* by the same call) has exactly one row with its id and the drive, and that
\* row has exactly the input's name, parent, trashed (and md5, size), whether
\* or not a row with that key existed before; rows of other keys that the call
\* did not remove are as they were; and storing the same diff a second time
\* after a PartialSync that returned nil leaves the tables as the first left them.
C27_UpsertSemantics ==
    /\ btPc \in {"once", "full"} =>
        /\ \A i \in 1..Len(btBatch.folders) :
            (LastOfID(btBatch.folders, i) /\ btBatch.folders[i].ID \notin DeletedIDs)
                => {r \in folderTbl : r.id = btBatch.folders[i].ID /\ r.drive = "D1"}
                    = {FolderRowOf(btBatch.folders[i], "D1")}
        /\ \A i \in 1..Len(btBatch.files) :
            (LastOfID(btBatch.files, i) /\ btBatch.files[i].ID \notin DeletedIDs)
                => {r \in fileTbl : r.id = btBatch.files[i].ID /\ r.drive = "D1"}
                    = {FileRowOf(btBatch.files[i], "D1")}
        /\ \A r \in btBefore.folder :
            (r.id \notin DeletedIDs \cup {"D1"} \cup {x.ID : x \in Range(btBatch.folders)}
                \/ r.drive # "D1") => r \in folderTbl
        /\ \A r \in btBefore.file :
            (r.id \notin DeletedIDs \cup {x.ID : x \in Range(btBatch.files)}
                \/ r.drive # "D1") => r \in fileTbl
    /\ btPc = "twice" => Tables = btOnce

\* a diff that renames and trashes the existing folder a, adds the new folder
\* b and rewrites the file f has been stored twice, both calls returning nil
C27_Witness ==
    /\ btPc = "twice" /\ stLast.err = "nil"
    /\ \E r \in btBefore.folder : r.id = "a" /\ r.drive = "D1" /\ r.name = "n1"
    /\ \A r \in btBefore.folder : r.id # "b"
    /\ \E r \in btBefore.file : r.id = "f" /\ r.drive = "D1" /\ r.md5 = "m1"
    /\ \E r \in folderTbl : r = FolderRowOf(Folder("a", "n2", "D1", TRUE), "D1")
    /\ \E r \in folderTbl : r = FolderRowOf(Folder("b", "n1", "a", FALSE), "D1")
    /\ \E r \in fileTbl : r = FileRowOf(File("f", "n2", "b", TRUE, 2, "m2"), "D1")
    /\ Tables = btOnce /\ Tables # btBefore

\* the hook has run to its end and returned nil
HookCompleted == btDiff.ran /\ btDiff.err = "nil"

\* the rows of the pre-batch store the hook's queries can return for an id
FolderRowsBefore(id) == {r \in btBefore.folder : r.id = id}
FileRowsBefore(id) == {r \in btBefore.file : r.id = id}

SameFolder(r, x) == r.name = x.Name /\ r.parent = x.Parent /\ r.trashed = x.Trashed
SameFile(r, x) ==
    /\ r.name = x.Name /\ r.parent = x.Parent /\ r.trashed = x.Trashed
    /\ r.size = x.Size /\ r.md5 = x.MD5

FolderNew(x) == FolderRowsBefore(x.ID) = {}
FileNew(x) == FileRowsBefore(x.ID) = {}

\* C28: when the differences hook has returned nil, AddedFolders and
\* AddedFiles are exactly the batch's folders and files with no row of their
\* id in the pre-batch store; a folder or file is in Changed only if a row of
\* its id differs in name, parent or trashed (or size, md5), and always when
\* every row of its id does; one whose row is identical is in neither; each
\* removed id is reported once, in RemovedFiles with the stored state of a
\* file row of that id, else in RemovedFolders with the stored state of a
\* folder row of that id; and the tables are as before the hook ran.
C28_HookClassification ==
    /\ HookCompleted =>
        /\ btDiff.AddedFolders = SelectSeq(btBatch.folders, FolderNew)
        /\ btDiff.AddedFiles = SelectSeq(btBatch.files, FileNew)
        /\ \A x \in Range(btBatch.folders) :
            /\ x \in Range(btDiff.ChangedFolders)
                => \E r \in FolderRowsBefore(x.ID) : ~SameFolder(r, x)
            /\ (~FolderNew(x) /\ \A r \in FolderRowsBefore(x.ID) : ~SameFolder(r, x))
                => x \in Range(btDiff.ChangedFolders)
        /\ \A x \in Range(btBatch.files) :
            /\ x \in Range(btDiff.ChangedFiles)
                => \E r \in FileRowsBefore(x.ID) : ~SameFile(r, x)
            /\ (~FileNew(x) /\ \A r \in FileRowsBefore(x.ID) : ~SameFile(r, x))
                => x \in Range(btDiff.ChangedFiles)
        /\ Range(btDiff.ChangedFolders) \subseteq Range(btBatch.folders)
        /\ Range(btDiff.ChangedFiles) \subseteq Range(btBatch.files)
        /\ Len(btDiff.RemovedFiles) + Len(btDiff.RemovedFolders) = Len(btBatch.removedIDs)
        /\ \A id \in Range(btBatch.removedIDs) :
            IF FileRowsBefore(id) # {}
            THEN /\ \E r \in FileRowsBefore(id) :
                        File(id, r.name, r.parent, r.trashed, r.size, r.md5)
                            \in Range(btDiff.RemovedFiles)
                 /\ \A x \in Range(btDiff.RemovedFolders) : x.ID # id
            ELSE /\ \E r \in FolderRowsBefore(id) :
                        Folder(id, r.name, r.parent, r.trashed)
                            \in Range(btDiff.RemovedFolders)
                 /\ \A x \in Range(btDiff.RemovedFiles) : x.ID # id
    /\ (btDiff.ran /\ btPc \in {"store", "aborted"}) => Tables = btBefore

\* the hook has run on a diff with a new folder b, the folder a as stored, the
\* file f rewritten, and the removal of a
C28_Witness ==
    /\ btPc = "store" /\ HookCompleted
    /\ btDiff.AddedFolders = <<Folder("b", "n1", "a", FALSE)>>
    /\ btBatch.folders = <<Folder("b", "n1", "a", FALSE), Folder("a", "n1", "D1", FALSE)>>
    /\ btDiff.ChangedFolders = <<>>
    /\ btDiff.AddedFiles = <<>>
    /\ btDiff.ChangedFiles = <<File("f", "n2", "b", TRUE, 2, "m2")>>
    /\ \E r \in btBefore.file : r.id = "f" /\ r.name = "n1" /\ r.parent = "D1"
    /\ btDiff.RemovedFolders = <<Folder("a", "n1", "D1", FALSE)>>

\* a removed id of the diff that no file row and no folder row carries
UnknownRemoval ==
    \E id \in Range(btBatch.removedIDs) : FileRowsBefore(id) = {} /\ FolderRowsBefore(id) = {}

\* C29: when the differences hook has run on a diff whose removedIDs hold an
\* id of no file row and no folder row, it has returned ErrDataAnomaly,
\* Bernard.PartialSync has stopped there without calling Datastore.PartialSync,
\* and the drive rows (page tokens), folder rows and file rows are those from
\* before the sync.
C29_UnknownRemovalAborts ==
    (btDiff.ran /\ UnknownRemoval) =>
        /\ btDiff.err = "ErrDataAnomaly"
        /\ btPc = "aborted"
        /\ btOnce = NoDb
        /\ Tables = btBefore

\* the hook has met the unknown id z after the known file f, on a diff that
\* also carries a new page token, a new drive name and a changed folder
C29_Witness ==
    /\ btPc = "aborted" /\ btDiff.ran
    /\ btBatch.removedIDs = <<"f", "z">>
    /\ btBatch.drive.Name = "n2"
    /\ btBatch.folders = <<Folder("a", "n2", "D1", TRUE)>>
    /\ btDiff.ChangedFolders = btBatch.folders
    /\ Len(btDiff.RemovedFiles) = 1
    /\ \E r \in driveTbl : r.id = "D1" /\ r.pageToken = "t1"
    /\ \E r \in folderTbl : r.id = "D1" /\ r.name = "n1"
    /\ \E r \in folderTbl : r.id = "a" /\ r.drive = "D1" /\ r.name = "n1"
    /\ \E r \in fileTbl : r.id = "f" /\ r.drive = "D1"

\* the root folder rows of D1 in a set of folder rows
RootRowsIn(rows) == {r \in rows : r.id = "D1" /\ r.drive = "D1"}

\* C31: after a Datastore.PartialSync that returned nil, when the diff's drive
\* name is not empty the drive's root folder row is the one row with that
\* name, NULL parent and trashed false; when the name is empty the root
\* folder row is the one from before the call; in both cases the drive's
\* row holds the diff's page token.
C31_DriveRename ==
    (btPc = "once" /\ stLast.op = "PartialSync") =>
        /\ RootRowsIn(folderTbl) =
            IF btBatch.drive.Name # ""
            THEN {[id |-> "D1", drive |-> "D1", name |-> btBatch.drive.Name,
                   parent |-> NULL, trashed |-> FALSE]}
            ELSE RootRowsIn(btBefore.folder)
        /\ {r \in driveTbl : r.id = "D1"}
            = {[id |-> "D1", pageToken |-> btBatch.drive.PageToken]}

\* a diff with the new drive name n2 and token t2 has been stored over the
\* root named n1 and token t1, together with a changed folder
C31_Witness ==
    /\ btPc = "once" /\ stLast.op = "PartialSync" /\ stLast.err = "nil"
    /\ btBatch.drive.Name = "n2"
    /\ btBatch.folders # <<>>
    /\ \E r \in RootRowsIn(btBefore.folder) : r.name = "n1"
    /\ \E r \in btBefore.drive : r.id = "D1" /\ r.pageToken = "t1"
    /\ \E r \in RootRowsIn(folderTbl) : r.name = "n2"

\* the ids of a sequence of folders or files
IDsOf(seq) == {x.ID : x \in Range(seq)}

\* C35: after a Datastore.FullSync that returned nil on a store that held
\* rows, the folder rows are the rows from before whose key is not written by
\* the call, the root row, and one row per folder id of the input with the
\* values of its last occurrence; the file rows likewise; no row is deleted.
C35_FullSyncNeverDeletes ==
    (btPc = "full" /\ stLast.op = "FullSync") =>
        /\ folderTbl =
              {r \in btBefore.folder :
                    ~(r.drive = "D1" /\ r.id \in IDsOf(btBatch.folders) \cup {"D1"})}
              \cup {[id |-> "D1", drive |-> "D1", name |-> "n1", parent |-> NULL,
                     trashed |-> FALSE]}
              \cup {FolderRowOf(btBatch.folders[i], "D1") :
                        i \in {j \in 1..Len(btBatch.folders) : LastOfID(btBatch.folders, j)}}
        /\ fileTbl =
              {r \in btBefore.file : ~(r.drive = "D1" /\ r.id \in IDsOf(btBatch.files))}
              \cup {FileRowOf(btBatch.files[i], "D1") :
                        i \in {j \in 1..Len(btBatch.files) : LastOfID(btBatch.files, j)}}

\* a second FullSync whose snapshot holds only the folder a, renamed, has
\* returned nil: the folder b and the file f of the first one are still stored
C35_Witness ==
    /\ btPc = "full" /\ stLast.op = "FullSync" /\ stLast.err = "nil"
    /\ btBatch.folders = <<Folder("a", "n2", "D1", TRUE)>>
    /\ btBatch.files = <<>>
    /\ \E r \in btBefore.folder : r.id = "a" /\ r.drive = "D1" /\ r.name = "n1"
    /\ \E r \in folderTbl : r.id = "a" /\ r.drive = "D1" /\ r.name = "n2"
    /\ \E r \in folderTbl : r.id = "b" /\ r.drive = "D1"
    /\ \E r \in fileTbl : r.id = "f" /\ r.drive = "D1"
    /\ folderTbl \cap btBefore.folder # {}

\* the removed ids of the diff that no folder row and no file row of D1 had
UnknownToDrive ==
    {id \in Range(btBatch.removedIDs) :
        /\ \A r \in btBefore.folder : ~(r.id = id /\ r.drive = "D1")
        /\ \A r \in btBefore.file : ~(r.id = id /\ r.drive = "D1")}

\* C37: a Datastore.PartialSync whose removedIDs hold an id of no row of the
\* drive does not fail at its DELETE statements unless a row under a removed
\* folder stays behind, and returns nil when its folders and files have their
\* parents; after it returned nil the drive row holds the diff's page token,
\* the rows of the other drive are as before, also one with the unknown id,
\* and so is every row of the drive that the diff neither writes nor removes.
C37_UnknownRemovalTolerated ==
    (btPc \in {"once", "failed"} /\ stLast.op = "PartialSync" /\ UnknownToDrive # {}) =>
        /\ stLast.at \in {"deleteFiles", "deleteFolders"} => stLast.stray
        /\ (~stLast.orphan /\ ~stLast.stray) => stLast.err = "nil"
        /\ stLast.err = "nil" =>
            /\ {r \in driveTbl : r.id = "D1"} = {[id |-> "D1", pageToken |-> "t2"]}
            /\ \A r \in btBefore.folder :
                (r.drive # "D1" \/ r.id \notin Range(btBatch.removedIDs)
                                    \cup IDsOf(btBatch.folders) \cup {"D1"})
                    => r \in folderTbl
            /\ \A r \in btBefore.file :
                (r.drive # "D1" \/ r.id \notin Range(btBatch.removedIDs)
                                    \cup IDsOf(btBatch.files))
                    => r \in fileTbl
            /\ \A r \in folderTbl : r.id \notin UnknownToDrive \/ r.drive # "D1"
            /\ \A r \in fileTbl : r.id \notin UnknownToDrive \/ r.drive # "D1"

\* the removal of the stored file f together with the unknown id z has been
\* stored: f is gone, the folders are as before, the token is t2
C37_Witness ==
    /\ btPc = "once" /\ stLast.op = "PartialSync" /\ stLast.err = "nil"
    /\ ~stLeaked
    /\ btBatch.removedIDs = <<"f", "z">>
    /\ btBatch.folders = <<>> /\ btBatch.files = <<>> /\ btBatch.drive.Name = ""
    /\ \E r \in btBefore.file : r.id = "f" /\ r.drive = "D1"
    /\ \A r \in fileTbl : r.drive # "D1"
    /\ folderTbl = btBefore.folder
    /\ \E r \in folderTbl : r.id = "a" /\ r.drive = "D1"
    /\ \E r \in driveTbl : r.id = "D1" /\ r.pageToken = "t2"

(***************************************************************************)
(* SpecChanges: a one-page change fetch of Bernard.PartialSync for D1, from *)
(* the changes in the order Google reports them to the stored rows         *)
(***************************************************************************)
\* the changes Google reports: a and f changed or removed, the drive renamed,
\* f moved to another drive
ReportedChanges == {ChangeA, ChangeF, RemoveA, RemoveF, RenameDrive, MoveOutF}

InitChanges == InitBatch

\* changedContent with one page, then PartialSync up to the store call
ChFetched ==
    /\ btPc = "synced"
    /\ \E changes \in SeqsUpTo(ReportedChanges, MaxChanges) :
        \E sifted \in {SiftChanges(changes, 1, "D1", "", <<>>, <<>>)} :
        \E c \in {convert(sifted.changedItems)} :
        \E o \in {orderFoldersOnHierarchy(c.folders)} :
            /\ ~c.panic
            /\ ~o.hangs
            /\ sfChanges' = changes
            /\ sfOut' = [done |-> TRUE, panic |-> c.panic, name |-> sifted.name,
                         removedIDs |-> sifted.removedIDs,
                         folders |-> c.folders, files |-> c.files]
            /\ btBatch' = [drive |-> [ID |-> "D1", Name |-> sifted.name,
                                      PageToken |-> BatchPageToken("", "t2")],
                           folders |-> o.ordered, files |-> c.files,
                           removedIDs |-> sifted.removedIDs]
    /\ btBefore' = Tables
    /\ btPc' = "hooks"
    /\ UNCHANGED <<sfPrior, btDiff, btOnce, storeVars>>
    /\ UNCHANGED <<orderVars, authVars, syncVars, upVars, pageVars, interleaveVars>>

NextChanges == BtFullSync \/ ChFetched \/ BtStore

SpecChanges == InitChanges /\ [][NextChanges]_vars

\* the positions of the reported changes that concern id: changed, removed
ChangedAt(id) ==
    {i \in 1..Len(sfChanges) :
        sfChanges[i].FileID = id /\ ~sfChanges[i].Removed
            /\ sfChanges[i].File.DriveID = "D1"}
RemovedAt(id) ==
    {i \in 1..Len(sfChanges) :
        sfChanges[i].FileID = id
            /\ (sfChanges[i].Removed \/ sfChanges[i].File.DriveID # "D1")}

\* C36: after a Datastore.PartialSync that returned nil, an id that the
\* change fetch reported both as changed and as removed, in either order, is
\* in the changed lists and in removedIDs of the diff and has no folder row
\* and no file row in the drive.
C36_RemovalWins ==
    (btPc = "once" /\ stLast.op = "PartialSync" /\ sfOut.done) =>
        \A id \in {"a", "f"} :
            (ChangedAt(id) # {} /\ RemovedAt(id) # {}) =>
                /\ id \in Range(btBatch.removedIDs)
                /\ id \in IDsOf(btBatch.folders) \cup IDsOf(btBatch.files)
                /\ \A r \in folderTbl : ~(r.id = id /\ r.drive = "D1")
                /\ \A r \in fileTbl : ~(r.id = id /\ r.drive = "D1")

\* Google reported the removal of the stored folder a and then a change of a;
\* the diff was stored and a has no row
C36_Witness ==
    /\ btPc = "once" /\ stLast.op = "PartialSync" /\ stLast.err = "nil"
    /\ sfChanges = <<RemoveA, ChangeA>>
    /\ \E r \in btBefore.folder : r.id = "a" /\ r.drive = "D1"
    /\ \A r \in folderTbl : r.id # "a"
    /\ \E r \in driveTbl : r.id = "D1" /\ r.pageToken = "t2"

(***************************************************************************)
(* SpecParents: Bernard.FullSync and Bernard.PartialSync of D1 where       *)
(* Google lists a folder whose first parent is the empty string            *)
(***************************************************************************)
\* a folder listed with "" as its first parent
ItemEmptyParent(driveID) == DriveItem("b", "n1", FolderMime, <<"">>, driveID)

ChangeEmptyParent == DriveChange("", "", "b", FALSE, ItemEmptyParent("D1"))

ParentPages ==
    { <<>>, <<ItemA("")>>, <<ItemF("")>>, <<ItemEmptyParent("")>>,
      <<ItemA(""), ItemEmptyParent("")>> }

ParentChanges ==
    { <<>>, <<ChangeA>>, <<ChangeF>>, <<RemoveA>>, <<ChangeEmptyParent>>,
      <<ChangeA, ChangeEmptyParent>> }

InitParents ==
    /\ safeSleep = 0
    /\ SyncLocalsIdle
    /\ InitStore
    /\ InitOrderIdle
    /\ InitAuthIdle
    /\ InitSiftIdle
    /\ InitUpstreamIdle
    /\ InitInterleaveIdle
    /\ InitBatchIdle
    /\ InitPagesIdle

NpFsPageToken == FsPageTokenOn({}, {"t1"}) /\ UNCHANGED upVars

NpFsDrive == FsDriveOn({}) /\ UNCHANGED upVars

NpFsPage == FsPageOn({}, ParentPages, NextPageTokens) /\ UNCHANGED upVars

NpFsStore == FsStoreOn({"none"}) /\ UNCHANGED upVars

NpPsPageToken == PsPageTokenOn({0}, {"none"}) /\ UNCHANGED upVars

NpPsPage ==
    /\ PsPageOn({}, ParentChanges, NextPageTokens,
                [next \in NextPageTokens |-> IF next = "" THEN {"t2"} ELSE {""}])
    /\ UNCHANGED upVars

NpPsStore == PsStoreOn({"none"}) /\ UNCHANGED upVars

NextParents ==
    \/ NpFsPageToken \/ NpFsDrive \/ NpFsPage \/ NpFsStore
    \/ NpPsPageToken \/ NpPsPage \/ NpPsStore
    \/ SyReturn

SpecParents == InitParents /\ [][NextParents]_vars

\* C32: in every committed state of the store, a folder row with a NULL
\* parent is the root of its drive: its id is the drive's id.  It holds for
\* the folders Google lists with a non-empty first parent; a folder listed
\* with "" as first parent is stored with a NULL parent by NULLIF(parent, "").
C32_OnlyRootNullParent ==
    \A r \in folderTbl : r.parent = NULL => r.id = r.drive

\* no listed folder had an empty first parent
NoEmptyParentStored == \A r \in folderTbl : r.id # "b"

\* C32 for the folders listed with a parent
C32_HoldsWithParents == NoEmptyParentStored => C32_OnlyRootNullParent

(***************************************************************************)
(* SpecInterleave: two Bernard.PartialSync calls for D1 on one store, their *)
(* steps interleaved; every Datastore call is one transaction              *)
(***************************************************************************)
\* the most change fetches, and the most changes Google registers
MaxFetches == 3

InitInterleave ==
    /\ InitInterleaveIdle
    /\ InitStore
    /\ InitOrderIdle
    /\ InitAuthIdle
    /\ InitSyncIdle
    /\ InitSiftIdle
    /\ InitUpstreamIdle
    /\ InitBatchIdle
    /\ InitPagesIdle

InterleaveFrame ==
    UNCHANGED <<orderVars, authVars, syncVars, siftVars, upVars, pageVars, batchVars>>

\* Bernard.FullSync of the empty drive: the start page token is the cursor
IlFullSync ==
    /\ driveTbl = {}
    /\ \A p \in Callers : ilPc[p] = "idle"
    /\ \E out \in {StoreFullSync(Db, [ID |-> "D1", Name |-> "n1",
                                       PageToken |-> UpToken(ilHead)],
                                  <<>>, <<>>, "none")} :
        Returned("FullSync", "D1", out, FALSE, <<>>, FALSE)
    /\ UNCHANGED interleaveVars
    /\ InterleaveFrame

\* the drive changes at Google: its cursor moves on
IlChange ==
    /\ ilHead < MaxFetches
    /\ ilHead' = ilHead + 1
    /\ UNCHANGED <<ilPc, ilPageToken, ilDiffToken, ilFetchedAt, ilFetches, ilOverlap,
                   storeVars>>
    /\ InterleaveFrame

\* PartialSync: pageToken, err := bernard.store.PageToken(driveID)
IlPageToken(p) ==
    /\ ilPc[p] = "idle"
    /\ driveTbl # {}
    /\ ilFetches < MaxFetches
    /\ \E r \in {StorePageToken(Db, "D1", "none")} :
        /\ r.err = "nil"
        /\ ilPageToken' = [ilPageToken EXCEPT ![p] = r.pageToken]
    /\ ilPc' = [ilPc EXCEPT ![p] = "fetch"]
    /\ ilOverlap' = (ilOverlap \/ \E q \in Callers \ {p} : ilPc[q] # "idle")
    /\ UNCHANGED <<ilDiffToken, ilFetchedAt, ilHead, ilFetches, storeVars>>
    /\ InterleaveFrame

\* PartialSync: diff, err := bernard.fetch.changedContent(driveID, pageToken);
\* if pageToken == diff.Drive.PageToken { return nil }
IlFetched(p) ==
    /\ ilPc[p] = "fetch"
    /\ \E token \in {BatchPageToken(ilPageToken[p], UpToken(ilHead))} :
        /\ ilDiffToken' = [ilDiffToken EXCEPT ![p] = token]
        /\ ilPc' = [ilPc EXCEPT ![p] = IF SameToken(ilPageToken[p], token)
                                       THEN "done" ELSE "store"]
    /\ ilFetches' = ilFetches + 1
    /\ ilFetchedAt' = [ilFetchedAt EXCEPT ![p] = ilFetches + 1]
    /\ UNCHANGED <<ilPageToken, ilHead, ilOverlap, storeVars>>
    /\ InterleaveFrame

\* PartialSync: err = bernard.store.PartialSync(diff.Drive, ...)
IlStore(p) ==
    /\ ilPc[p] = "store"
    /\ \E out \in {StorePartialSync(Db, [ID |-> "D1", Name |-> "",
                                          PageToken |-> ilDiffToken[p]],
                                     <<>>, <<>>, <<>>, "none")} :
        Returned("PartialSync", "D1", out, FALSE, <<>>, FALSE)
    /\ ilPc' = [ilPc EXCEPT ![p] = "done"]
    /\ UNCHANGED <<ilPageToken, ilDiffToken, ilFetchedAt, ilHead, ilFetches, ilOverlap>>
    /\ InterleaveFrame

\* the call has returned
IlReturn(p) ==
    /\ ilPc[p] = "done"
    /\ ilPc' = [ilPc EXCEPT ![p] = "idle"]
    /\ ilPageToken' = [ilPageToken EXCEPT ![p] = ""]
    /\ ilDiffToken' = [ilDiffToken EXCEPT ![p] = ""]
    /\ ilFetchedAt' = [ilFetchedAt EXCEPT ![p] = 0]
    /\ UNCHANGED <<ilHead, ilFetches, ilOverlap, storeVars>>
    /\ InterleaveFrame

IlCallerPageToken == \E p \in Callers : IlPageToken(p)
IlCallerFetched == \E p \in Callers : IlFetched(p)
IlCallerStore == \E p \in Callers : IlStore(p)
IlCallerReturn == \E p \in Callers : IlReturn(p)

NextInterleave ==
    \/ IlFullSync \/ IlChange
    \/ IlCallerPageToken \/ IlCallerFetched \/ IlCallerStore \/ IlCallerReturn

SpecInterleave == InitInterleave /\ [][NextInterleave]_vars

\* the page token stored for D1
StoredPageToken == StoredToken(Db, "D1").pageToken

\* C39: when two PartialSync calls on one drive interleave, the stored page
\* token does not move from the page token of the diff fetched later to the
\* different page token of the diff fetched earlier.  Datastore.PartialSync
\* upserts the token it is given: the call that fetched first and stores last
\* puts its older token back.
C39_TokenNeverMovesBack ==
    [][\A p \in Callers, q \in Callers :
        (/\ 0 < ilFetchedAt[p] /\ ilFetchedAt[p] < ilFetchedAt[q]
         /\ ilDiffToken[p] # ilDiffToken[q])
            => ~(StoredPageToken = ilDiffToken[q] /\ StoredPageToken' = ilDiffToken[p])]_vars

\* C39 for calls that do not overlap: the stored page token follows the
\* drive's cursor and never moves to an earlier one
C39_HoldsSerialised ==
    [][(~ilOverlap' /\ driveTbl # {})
        => TokenPos(StoredPageToken') >= TokenPos(StoredPageToken)]_vars


====
